---- MODULE Spec2Model ----
(***************************************************************************)
(* Team-balancing engine of OSSMNF: the fairness scorer, the draft        *)
(* allocator (generateBalancedTeams), the annealed optimizer               *)
(* (generateConstraintOptimizedTeams) and the two versions of              *)
(* generateILPOptimizedTeams.                                              *)
(*                                                                         *)
(* Number representation.  JavaScript numbers are modelled in fixed point: *)
(*   - ovr is kept in tenths (calculateOVR rounds to one decimal);         *)
(*   - weights are kept in tenths (1.0 -> 10, 0.8 -> 8, ...);              *)
(*   - a fairness score is kept in hundredths;                             *)
(*   - temperature is kept in millionths, coolingRate in hundredths.       *)
(***************************************************************************)
EXTENDS Integers, Sequences, FiniteSets, TLC

(***************************************************************************)
(* Bounds of the model                                                     *)
(***************************************************************************)
MaxTeamSize == 2   \* teamSize ranges over 1..MaxTeamSize
MaxPlayers == 5    \* longest player pool handed to an allocator
IterCap == 2       \* cap on the annealing iterations that are explored
MaxRoster == 8     \* longest roster handed to the scorer on its own
MaxCalls == 2      \* consecutive calls of a pure function on the same arguments
MaxAttribute == 10 \* fitness, defence, attack and ballUse range over 1..MaxAttribute
DraftTeamSize == 3 \* teamSize of the drafts that are followed push by push
MaxListed == 17    \* longest players list the Play page is given
MaxClicks == 2     \* availability events of the user on the Play page

(***************************************************************************)
(* Program constants                                                       *)
(***************************************************************************)
maxRefineIterations == 100      \* const maxIterations = 100 (draft refinement)
minTemperature == 10000         \* 0.01, in millionths
TopCountCap == 3                \* Math.min(3, ...)
EliteCap == 4                   \* Math.min(4, ...)
EliteMinTeamSize == 5           \* teamSize >= 5
EnhancedMaxIterations == 1000
EnhancedTemperature == 15000000 \* 15, in millionths
EnhancedCoolingRate == 99       \* 0.99, in hundredths
PLAYING_SQUAD_SIZE == 16
MaxReserveOrder == 8            \* reserveOrder: 1-8 for reserves

Attributes == <<"ovr", "fitness", "attack", "defence", "ballUse">>

Min(a, b) == IF a < b THEN a ELSE b
Abs(x) == IF x < 0 THEN -x ELSE x
Range(s) == {s[i] : i \in 1..Len(s)}

(***************************************************************************)
(* calculateOVR.  The weighted sum is held exactly, in units of 1/10000.   *)
(* Math.round(ovr * 10) / 10 is returned in tenths.  The code adds and     *)
(* multiplies in double precision: the computed ovr * 10 differs from the  *)
(* exact value by far less than 1/1000, the least distance of a sum that   *)
(* is not a midpoint from a midpoint, so only an exact midpoint can fall   *)
(* to either side.  midpointUp says on which side the computed value of a  *)
(* midpoint lies; it is a function of the inputs that the model leaves     *)
(* open.                                                                   *)
(***************************************************************************)
weightedSum(fitness, defence, attack, ballUse, position) ==
    LET adjustedDefence100 == IF position = "DEF" THEN defence * 115
                         ELSE IF position = "ATT" THEN defence * 85
                         ELSE defence * 100
        adjustedAttack100 == IF position = "DEF" THEN attack * 85
                        ELSE IF position = "ATT" THEN attack * 115
                        ELSE attack * 100
    IN  fitness * 3500 + adjustedDefence100 * 25 + adjustedAttack100 * 20
        + ballUse * 2000

\* Math.round(ovr * 10) of a sum held in units of 1/10000
TruncateToTenth(ovr10000, midpointUp) == ovr10000 \div 1000
roundToTenth(ovr10000, midpointUp) ==
    IF ovr10000 % 1000 = 500
    THEN IF midpointUp THEN ovr10000 \div 1000 + 1 ELSE ovr10000 \div 1000
    ELSE (ovr10000 + 500) \div 1000

calculateOVR(fitness, defence, attack, ballUse, position, midpointUp) ==
    roundToTenth(weightedSum(fitness, defence, attack, ballUse, position),
                 midpointUp)

\* A Player record as the Configuration page stores it: ovr is calculateOVR
\* of the four attributes and the position.  The one midpoint among the
\* players of the model (2, 3, 2, 2, ALR: 2.25) is computed as 2.3.
MkPlayer(id, name, position, fitness, defence, attack, ballUse) ==
    [id |-> id, name |-> name, position |-> position, fitness |-> fitness,
     defence |-> defence, attack |-> attack, ballUse |-> ballUse,
     ovr |-> calculateOVR(fitness, defence, attack, ballUse, position, TRUE)]

\* { ...player, isCaptain: false }
ToTeamPlayer(p) ==
    [id |-> p.id, name |-> p.name, position |-> p.position,
     fitness |-> p.fitness, defence |-> p.defence, attack |-> p.attack,
     ballUse |-> p.ballUse, ovr |-> p.ovr, isCaptain |-> FALSE]

\* the Player part of a TeamPlayer
ToPlayer(p) ==
    [id |-> p.id, name |-> p.name, position |-> p.position,
     fitness |-> p.fitness, defence |-> p.defence, attack |-> p.attack,
     ballUse |-> p.ballUse, ovr |-> p.ovr]

\* String.prototype.toLowerCase on the names that occur in the model
toLowerCase(name) ==
    CASE name = "Jay" -> "jay"
      [] name = "JAY" -> "jay"
      [] name = "Dman" -> "dman"
      [] name = "DMan" -> "dman"
      [] name = "Al" -> "al"
      [] name = "Bo" -> "bo"
      [] name = "Cy" -> "cy"
      [] name = "Di" -> "di"
      [] OTHER -> name

(***************************************************************************)
(* Array helpers                                                           *)
(***************************************************************************)
\* Array.prototype.sort((a, b) => b.ovr - a.ovr): stable, descending by ovr
RECURSIVE InsertDesc(_, _)
InsertDesc(sorted, p) ==
    IF sorted = <<>> THEN <<p>>
    ELSE IF Head(sorted).ovr >= p.ovr
         THEN <<Head(sorted)>> \o InsertDesc(Tail(sorted), p)
         ELSE <<p>> \o sorted

RECURSIVE SortByOvrDesc(_)
SortByOvrDesc(s) ==
    IF s = <<>> THEN <<>>
    ELSE InsertDesc(SortByOvrDesc(SubSeq(s, 1, Len(s) - 1)), s[Len(s)])

\* Array.prototype.slice(from0, to0) with 0-based, end-exclusive indices
Slice(s, from0, to0) == SubSeq(s, from0 + 1, Min(to0, Len(s)))

\* Array.prototype.filter
RECURSIVE FilterPosition(_, _)
FilterPosition(s, pos) ==
    IF s = <<>> THEN <<>>
    ELSE IF Head(s).position = pos
         THEN <<Head(s)>> \o FilterPosition(Tail(s), pos)
         ELSE FilterPosition(Tail(s), pos)

\* team.reduce((sum, p) => sum + p[attr], 0); ovr in tenths
RECURSIVE sumAttr(_, _)
sumAttr(team, attr) ==
    IF team = <<>> THEN 0 ELSE team[1][attr] + sumAttr(Tail(team), attr)

(***************************************************************************)
(* Configuration                                                           *)
(***************************************************************************)
\* An optional field is present when its name is in the record's "has" set;
\* the value stored for an absent field is never read.
AllConfigFields == {"maxIterations", "temperature", "coolingRate",
                    "minPositions", "weights"}
AllPositions == {"DEF", "ATT", "ALR"}
AllWeights == {"ovr", "fitness", "attack", "defence", "ballUse",
               "topHeaviness", "positionViolation"}

\* a minPositions object { DEF: def, ATT: att, ALR: alr } with the keys in has
MinPositions(has, def, att, alr) ==
    [k \in {"has", "DEF", "ATT", "ALR"} |->
        CASE k = "has" -> has
          [] k = "DEF" -> def
          [] k = "ATT" -> att
          [] k = "ALR" -> alr]

DEFAULT_CONFIG ==
    [has |-> AllConfigFields,
     maxIterations |-> 500,
     temperature |-> 10000000,
     coolingRate |-> 98,
     minPositions |-> MinPositions(AllPositions, 1, 1, 0),
     weights |-> [has |-> AllWeights,
                  ovr |-> 10, fitness |-> 8, attack |-> 6, defence |-> 6,
                  ballUse |-> 5, topHeaviness |-> 7, positionViolation |-> 100]]

\* the empty config {}
EmptyConfig == [DEFAULT_CONFIG EXCEPT !.has = {}]

\* { ...a, ...b }: every field b has overrides a's
Spread(a, b) ==
    [f \in DOMAIN a |-> IF f = "has" THEN a.has \cup b.has
                        ELSE IF f \in b.has THEN b[f] ELSE a[f]]

\* { ...DEFAULT_CONFIG[field], ...config[field] } where config[field] may be
\* undefined (spreading undefined adds nothing)
SpreadField(cfg, field) ==
    IF field \in cfg.has THEN Spread(DEFAULT_CONFIG[field], cfg[field])
    ELSE DEFAULT_CONFIG[field]

(***************************************************************************)
(* Fairness scorer                                                         *)
(***************************************************************************)
\* [...team].sort(...).slice(0, topCount).reduce(...): the sum, in tenths
getTopSum(team, topCount) ==
    sumAttr(Slice(SortByOvrDesc(team), 0, topCount), "ovr")

\* What the argument array of getTopSum holds after the call: the sort is
\* applied to the copy [...team], the argument keeps its order.
ArrayAfterSortInPlace(team) == SortByOvrDesc(team)
ArrayAfterTopSum(team) == team

TopCountUncapped(redTeam) == Len(redTeam) \div 2
topCount(redTeam) == Min(TopCountCap, Len(redTeam) \div 2)

calculateTopHeaviness(redTeam, whiteTeam) ==
    Abs(getTopSum(redTeam, topCount(redTeam))
        - getTopSum(whiteTeam, topCount(redTeam)))

\* counts[pos] after team.forEach((p) => counts[p.position]++)
CountPosition(team, pos) == Len(FilterPosition(team, pos))

TeamViolations(team, minPositions) ==
    LET short(pos) == IF CountPosition(team, pos) < minPositions[pos]
                      THEN minPositions[pos] - CountPosition(team, pos)
                      ELSE 0
    IN  short("DEF") + short("ATT") + short("ALR")

countPositionViolations(redTeam, whiteTeam, minPositions) ==
    TeamViolations(redTeam, minPositions)
    + TeamViolations(whiteTeam, minPositions)

\* metrics: ovrDiff and topHeavinessDiff in tenths, the others in units;
\* score in hundredths
calculateFairnessScore(redTeam, whiteTeam, cfg) ==
    LET weights == SpreadField(cfg, "weights")
        minPositions == SpreadField(cfg, "minPositions")
        diff(attr) == Abs(sumAttr(redTeam, attr) - sumAttr(whiteTeam, attr))
        metrics ==
            [ovrDiff |-> diff("ovr"),
             fitnessDiff |-> diff("fitness"),
             attackDiff |-> diff("attack"),
             defenceDiff |-> diff("defence"),
             ballUseDiff |-> diff("ballUse"),
             topHeavinessDiff |-> calculateTopHeaviness(redTeam, whiteTeam),
             positionViolations |->
                 countPositionViolations(redTeam, whiteTeam, minPositions)]
        score ==
            metrics.ovrDiff * weights.ovr
            + metrics.fitnessDiff * 10 * weights.fitness
            + metrics.attackDiff * 10 * weights.attack
            + metrics.defenceDiff * 10 * weights.defence
            + metrics.ballUseDiff * 10 * weights.ballUse
            + metrics.topHeavinessDiff * weights.topHeaviness
            + metrics.positionViolations * 10 * weights.positionViolation
    IN  [score |-> score, metrics |-> metrics]

(***************************************************************************)
(* Draft allocator: the pure steps of generateBalancedTeams.  A pair of    *)
(* teams is a record [redTeam, whiteTeam].                                 *)
(***************************************************************************)
Teams(red, white) == [redTeam |-> red, whiteTeam |-> white]

SelectFirstPlayers(pool, ts) == Slice(pool, 0, ts * 2)
\* sortedPlayers.slice(0, teamSize * 2) of [...players].sort(by ovr desc)
selectTopPlayers(pool, ts) == Slice(SortByOvrDesc(pool), 0, ts * 2)

\* lines 89-101: whether the forEach callback pushes to redTeam
AlternatesOnly(index, teams, ts) == index % 2 = 0
pushesToRed(index, teams, ts) ==
    IF index % 2 = 0
    THEN Len(teams.redTeam) < ts
    ELSE ~(Len(teams.whiteTeam) < ts)

\* the forEach callback for positionPlayers[index] (0-based index)
pushPlayer(player, index, teams, ts) ==
    LET teamPlayer == ToTeamPlayer(player)
    IN  IF pushesToRed(index, teams, ts)
        THEN Teams(Append(teams.redTeam, teamPlayer), teams.whiteTeam)
        ELSE Teams(teams.redTeam, Append(teams.whiteTeam, teamPlayer))

\* the forEach of distributePosition from (0-based) index on
RECURSIVE distributeFrom(_, _, _, _)
distributeFrom(positionPlayers, index, teams, ts) ==
    IF index >= Len(positionPlayers) THEN teams
    ELSE distributeFrom(positionPlayers, index + 1,
                        pushPlayer(positionPlayers[index + 1], index, teams, ts),
                        ts)

distributePosition(positionPlayers, teams, ts) ==
    distributeFrom(SortByOvrDesc(positionPlayers), 0, teams, ts)

\* while (redTeam.length > teamSize) whiteTeam.push(redTeam.pop())
RECURSIVE moveSurplusRed(_, _)
moveSurplusRed(teams, ts) ==
    IF Len(teams.redTeam) > ts
    THEN moveSurplusRed(
             Teams(SubSeq(teams.redTeam, 1, Len(teams.redTeam) - 1),
                   Append(teams.whiteTeam, teams.redTeam[Len(teams.redTeam)])),
             ts)
    ELSE teams

\* while (whiteTeam.length > teamSize) redTeam.push(whiteTeam.pop())
RECURSIVE moveSurplusWhite(_, _)
moveSurplusWhite(teams, ts) ==
    IF Len(teams.whiteTeam) > ts
    THEN moveSurplusWhite(
             Teams(Append(teams.redTeam, teams.whiteTeam[Len(teams.whiteTeam)]),
                   SubSeq(teams.whiteTeam, 1, Len(teams.whiteTeam) - 1)),
             ts)
    ELSE teams

\* the teams after the three distributePosition calls
distributeAll(selectedPlayers, ts) ==
    LET defenders == FilterPosition(selectedPlayers, "DEF")
        attackers == FilterPosition(selectedPlayers, "ATT")
        allRounders == FilterPosition(selectedPlayers, "ALR")
        afterDef == distributePosition(defenders, Teams(<<>>, <<>>), ts)
        afterAtt == distributePosition(attackers, afterDef, ts)
    IN  distributePosition(allRounders, afterAtt, ts)

\* lines 71-117: selection, distribution and the two size-balancing loops
draftTeams(pool, ts) ==
    moveSurplusWhite(
        moveSurplusRed(distributeAll(selectTopPlayers(pool, ts), ts), ts), ts)

\* |redOvr - whiteOvr|, in tenths
ovrGap(teams) ==
    Abs(sumAttr(teams.redTeam, "ovr") - sumAttr(teams.whiteTeam, "ovr"))

\* newDiff for the swap of redTeam[i] and whiteTeam[j] (1-based)
newDiff(teams, i, j) ==
    LET redOvr == sumAttr(teams.redTeam, "ovr")
        whiteOvr == sumAttr(teams.whiteTeam, "ovr")
        newRedOvr == redOvr - teams.redTeam[i].ovr + teams.whiteTeam[j].ovr
        newWhiteOvr == whiteOvr - teams.whiteTeam[j].ovr + teams.redTeam[i].ovr
    IN  Abs(newRedOvr - newWhiteOvr)

swapPlayers(teams, i, j) ==
    Teams([teams.redTeam EXCEPT ![i] = teams.whiteTeam[j]],
          [teams.whiteTeam EXCEPT ![j] = teams.redTeam[i]])

\* if (newDiff < currentDiff)
NotWorse(teams, i, j) == newDiff(teams, i, j) <= ovrGap(teams)
improves(teams, i, j) == newDiff(teams, i, j) < ovrGap(teams)

\* the pairs (i, j) the nested for loops of lines 132-133 range over
ScanFirstRedOnly(teams) ==
    {p \in {1} \X (1..Len(teams.whiteTeam)) : improves(teams, p[1], p[2])}
improvingPairs(teams) ==
    {p \in (1..Len(teams.redTeam)) \X (1..Len(teams.whiteTeam)) :
        improves(teams, p[1], p[2])}

\* the first pair the nested for loops reach (i outer, j inner)
firstPair(pairs) ==
    CHOOSE p \in pairs :
        \A q \in pairs : p[1] < q[1] \/ (p[1] = q[1] /\ p[2] <= q[2])

\* one pass of the refinement loop: at most one swap, the first improving one
refinePass(teams) ==
    IF improvingPairs(teams) = {} THEN teams
    ELSE LET p == firstPair(improvingPairs(teams))
         IN  swapPlayers(teams, p[1], p[2])

\* team[idx].isCaptain = true (1-based idx)
setCaptain(team, idx) == [team EXCEPT ![idx].isCaptain = TRUE]

clearCaptains(team) == [i \in 1..Len(team) |-> [team[i] EXCEPT !.isCaptain = FALSE]]

\* assignRandomCaptains with the two random indices drawn (1-based)
assignRandomCaptains(teams, redIdx, whiteIdx) ==
    Teams(setCaptain(clearCaptains(teams.redTeam), redIdx),
          setCaptain(clearCaptains(teams.whiteTeam), whiteIdx))

\* Array.prototype.findIndex, 1-based; 0 stands for -1 (not found)
findIndex(team, Test(_)) ==
    IF \E i \in 1..Len(team) : Test(team[i])
    THEN CHOOSE i \in 1..Len(team) :
             Test(team[i]) /\ \A k \in 1..(i - 1) : ~Test(team[k])
    ELSE 0

mA(p) == toLowerCase(p.name) = "jay"
mB(p) == toLowerCase(p.name) = "dman"
neitherAB(p) == ~mA(p) /\ ~mB(p)

NoTeamConstraints(red, white) == Teams(red, white)
applyTeamConstraints(red, white) ==
    LET aR == findIndex(red, mA)
        bR == findIndex(red, mB)
        aW == findIndex(white, mA)
        bW == findIndex(white, mB)
        split ==
            IF aR > 0 /\ bR > 0
            THEN LET si == findIndex(white, neitherAB)
                 IN  IF si > 0
                     THEN Teams([red EXCEPT ![bR] = white[si]],
                                [white EXCEPT ![si] = red[bR]])
                     ELSE Teams(red, white)
            ELSE IF aW > 0 /\ bW > 0
            THEN LET si == findIndex(red, neitherAB)
                 IN  IF si > 0
                     THEN Teams([red EXCEPT ![si] = white[bW]],
                                [white EXCEPT ![bW] = red[si]])
                     ELSE Teams(red, white)
            ELSE Teams(red, white)
    IN  IF \E i \in 1..Len(split.redTeam) : mA(split.redTeam[i])
        THEN Teams(split.whiteTeam, split.redTeam)
        ELSE split

(***************************************************************************)
(* Annealed optimizer: neighbours of generateSwap                          *)
(***************************************************************************)
\* '1-for-1': one random index per team
oneForOne(teams) ==
    {swapPlayers(teams, redIdx, whiteIdx) :
        redIdx \in 1..Len(teams.redTeam), whiteIdx \in 1..Len(teams.whiteTeam)}

\* the values redIdx2 can have when its re-draw loop exits: any index other
\* than idx1, or idx1 itself when the team has a single player
secondIndex(len, idx1) ==
    IF len > 1 THEN (1..len) \ {idx1} ELSE 1..len

\* '2-for-2': two exchanges applied one after the other
twoForTwo(teams) ==
    {swapPlayers(swapPlayers(teams, q[1], q[3]), q[2], q[4]) :
        q \in {r \in (1..Len(teams.redTeam)) \X (1..Len(teams.redTeam))
                     \X (1..Len(teams.whiteTeam)) \X (1..Len(teams.whiteTeam)) :
                  /\ r[2] \in secondIndex(Len(teams.redTeam), r[1])
                  /\ r[4] \in secondIndex(Len(teams.whiteTeam), r[3])}}

generateSwap(teams, type) ==
    IF type = "1-for-1" THEN oneForOne(teams) ELSE twoForTwo(teams)

\* bestRed = currentRed.map((p) => ({ ...p }))
copyTeam(team) == [i \in 1..Len(team) |-> team[i]]

\* temperature *= coolingRate, in fixed point
cool(temp, rate) == (temp * rate) \div 100

(***************************************************************************)
(* Binary-program optimizer: the model of buildILPModel and the extraction *)
(***************************************************************************)
posCount(selectedPlayers, pos) == Len(FilterPosition(selectedPlayers, pos))

\* lines 251-258: halve the requirement the pool cannot meet twice
adjustMinPos(minPositions, selectedPlayers) ==
    [k \in DOMAIN minPositions |->
        IF k = "has" THEN minPositions[k]
        ELSE IF posCount(selectedPlayers, k) < minPositions[k] * 2
             THEN posCount(selectedPlayers, k) \div 2
             ELSE minPositions[k]]

eliteCount(ts) == Min(EliteCap, (ts \div 2) * 2)

\* players.indexOf(p) for the first eliteCount players by ovr (1-based)
eliteIndices(modelPlayers, ts) ==
    IF eliteCount(ts) >= 2 /\ ts >= EliteMinTeamSize
       /\ Len(modelPlayers) >= eliteCount(ts)
    THEN LET top == Slice(SortByOvrDesc(modelPlayers), 0, eliteCount(ts))
         IN  {i \in 1..Len(modelPlayers) :
                 /\ modelPlayers[i] \in Range(top)
                 /\ \A k \in 1..(i - 1) : modelPlayers[k] # modelPlayers[i]}
    ELSE {}

\* the constraints and objective data of the model
buildILPModel(modelPlayers, ts, minPositions, weights) ==
    [n |-> Len(modelPlayers),
     teamSizeEqual |-> ts,
     redMin |-> minPositions,
     position |-> [i \in 1..Len(modelPlayers) |-> modelPlayers[i].position],
     total |-> [a \in Range(Attributes) |-> sumAttr(modelPlayers, a)],
     coeff |-> [a \in Range(Attributes) |->
                   [i \in 1..Len(modelPlayers) |-> modelPlayers[i][a]]],
     cost |-> [a \in Range(Attributes) |-> weights[a]],
     hasElite |-> eliteIndices(modelPlayers, ts) # {},
     elite |-> eliteIndices(modelPlayers, ts),
     elitePerTeam |-> eliteCount(ts) \div 2]

RECURSIVE SumOver(_, _)
SumOver(x, idx) ==
    IF idx = {} THEN 0
    ELSE LET i == CHOOSE k \in idx : TRUE IN x[i] + SumOver(x, idx \ {i})

\* x (values of x0..x(n-1)) meets every constraint on the player variables;
\* the slack pair of each balance row can always be chosen
satisfies(model, x) ==
    /\ SumOver(x, 1..model.n) = model.teamSizeEqual
    /\ \A pos \in AllPositions :
           SumOver(x, {i \in 1..model.n : model.position[i] = pos})
               >= model.redMin[pos]
    /\ model.hasElite => SumOver(x, model.elite) = model.elitePerTeam

\* the sequences of n integers in 0..maxv that add up to total
RECURSIVE assignments(_, _, _)
assignments(n, total, maxv) ==
    IF n = 0 THEN IF total = 0 THEN {<<>>} ELSE {}
    ELSE UNION {{Append(x, v) : x \in assignments(n - 1, total - v, maxv)} :
                   v \in 0..Min(maxv, total)}

\* The values the model admits for x0..x(n-1).  The variables are declared
\* in model.ints and not in model.binaries: each is an integer >= 0, and
\* the teamSize row keeps it at or below teamSize.
solutions(model) ==
    {x \in assignments(model.n, model.teamSizeEqual, model.teamSizeEqual) :
        satisfies(model, x)}

\* Twice the least cost the model admits for x, in hundredths: the row
\* <attr>Balance is RedSum + plus - minus = total / 2 with plus, minus >= 0
\* costing weights[attr] each, so the cheapest pair has
\* plus + minus = |RedSum - total / 2|.
objective2(model, x) ==
    LET redSum(a) == SumOver([i \in 1..model.n |-> x[i] * model.coeff[a][i]],
                             1..model.n)
        unit(a) == IF a = "ovr" THEN 1 ELSE 10
        term(a) == model.cost[a] * unit(a) * Abs(2 * redSum(a) - model.total[a])
    IN  term("ovr") + term("fitness") + term("attack") + term("defence")
        + term("ballUse")

\* cost of the variable slack_<attr>_minus
FreeMinusSlack(model, a) == 0
minusSlackCost(model, a) == model.cost[a]

\* The row <attr>Balance with its slack pair spelt out, doubled to stay in
\* integers: 2 * RedSum + P - M = total, where P = 2 * plus and M = 2 * minus
\* are >= 0.  The set holds twice the cost of every pair with P up to the
\* pool total, in hundredths.
balanceRowCosts2(model, x, a) ==
    LET redSum == SumOver([i \in 1..model.n |-> x[i] * model.coeff[a][i]],
                          1..model.n)
        unit == IF a = "ovr" THEN 1 ELSE 10
    IN  {unit * (model.cost[a] * P + minusSlackCost(model, a) * M) :
            <<P, M>> \in {<<plus2, 2 * redSum + plus2 - model.total[a]>> :
                             plus2 \in 0..model.total[a]}
                          \cap (Nat \X Nat)}

\* twice the smallest objective value the model admits for x
leastCost2(model, x) ==
    LET least(a) == CHOOSE c \in balanceRowCosts2(model, x, a) :
                        \A d \in balanceRowCosts2(model, x, a) : c <= d
    IN  least("ovr") + least("fitness") + least("attack") + least("defence")
        + least("ballUse")

\* solver.Solve(model) with results.feasible: an assignment of least cost
\* (opType 'min' on 'cost'); among several of least cost, any
solverOptimum(model) ==
    LET sols == solutions(model)
        costs == {objective2(model, x) : x \in sols}
        least == CHOOSE c \in costs : \A d \in costs : c <= d
    IN  {x \in sols : objective2(model, x) = least}

\* playerScores.sort((a, b) => b.score - a.score): stable, descending
RECURSIVE insertByScore(_, _)
insertByScore(sorted, e) ==
    IF sorted = <<>> THEN <<e>>
    ELSE IF Head(sorted).score >= e.score
         THEN <<Head(sorted)>> \o insertByScore(Tail(sorted), e)
         ELSE <<e>> \o sorted

RECURSIVE sortByScore(_)
sortByScore(s) ==
    IF s = <<>> THEN <<>>
    ELSE insertByScore(sortByScore(SubSeq(s, 1, Len(s) - 1)), s[Len(s)])

\* lines 272-288: Red is the first teamSize players by assignment value
extractTeams(selectedPlayers, x, ts) ==
    LET playerScores == sortByScore(
            [i \in 1..Len(selectedPlayers) |->
                [player |-> selectedPlayers[i], score |-> x[i]]])
        asTeam(s) == [i \in 1..Len(s) |-> ToTeamPlayer(s[i].player)]
    IN  Teams(asTeam(Slice(playerScores, 0, ts)),
              asTeam(Slice(playerScores, ts, Len(playerScores))))

(***************************************************************************)
(* Inputs the model explores                                               *)
(***************************************************************************)
\* the squad list the Play page filters the selected players from
Squad ==
    <<MkPlayer(1, "Al", "DEF", 7, 8, 4, 6),
      MkPlayer(2, "Jay", "ATT", 4, 2, 5, 4),
      MkPlayer(3, "Bo", "ALR", 6, 6, 6, 6),
      MkPlayer(4, "Dman", "DEF", 9, 9, 5, 8),
      MkPlayer(5, "Cy", "ATT", 7, 4, 8, 6),
      MkPlayer(6, "Di", "ALR", 6, 6, 6, 6)>>

\* players.filter((p) => selectedPlayerIds.has(p.id)): list order is kept
RECURSIVE filterByIds(_, _)
filterByIds(list, ids) ==
    IF list = <<>> THEN <<>>
    ELSE IF Head(list).id \in ids
         THEN <<Head(list)>> \o filterByIds(Tail(list), ids)
         ELSE filterByIds(Tail(list), ids)

Pools ==
    {filterByIds(Squad, ids) :
        ids \in {c \in SUBSET (1..Len(Squad)) : Cardinality(c) <= MaxPlayers}}

\* { temperature: 0.0101 }: one iteration, then the temperature floor
ColdConfig ==
    [EmptyConfig EXCEPT !.has = {"temperature"}, !.temperature = 10100]

\* a config with its own minimums and weights
CustomConfig ==
    [EmptyConfig EXCEPT
        !.has = {"maxIterations", "minPositions", "weights"},
        !.maxIterations = 1,
        !.minPositions = MinPositions(AllPositions, 0, 2, 1),
        !.weights = [has |-> AllWeights,
                     ovr |-> 10, fitness |-> 0, attack |-> 10, defence |-> 0,
                     ballUse |-> 0, topHeaviness |-> 5,
                     positionViolation |-> 50]]

Configs == {EmptyConfig, ColdConfig, CustomConfig}

(***************************************************************************)
(* State                                                                   *)
(***************************************************************************)
VARIABLES
    players, teamSize, config,   \* the caller's arguments
    entry,                       \* the exported function that was called
    pc,                          \* where control is
    argPlayers, argConfig,       \* arguments of generateConstraintOptimizedTeams
                                 \* and generateBalancedTeams (players only)
    redTeam, whiteTeam,          \* generateBalancedTeams' teams, then its result
    improved, iterations,        \* refinement loop of generateBalancedTeams
    currentRed, currentWhite, currentScore,
    bestRed, bestWhite, bestScore,
    annealIterations, temperature,
    newRed, newWhite, newScore,  \* the neighbour of the latest annealing iteration
    accepted,                    \* whether that iteration took the accept branch
    swapIndices,                 \* redIdx1, redIdx2, whiteIdx1, whiteIdx2 of a
                                 \* 2-for-2 move that is followed draw by draw
    solverOutcome,               \* what solver.Solve did
    result,                      \* what the called function returned or threw
    producedBy,                  \* which routine built the returned teams
    scoreLog,                    \* results of the scorer calls (scorer runs)
    ovrArgs, midpointUp, ovrLog, \* calculateOVR's arguments, the side its
                                 \* midpoints fall to, the values it returned
    bucket, laterBuckets,        \* distributePosition's positionPlayers, and the
                                 \* position groups not handed to it yet
    forEachIndex,                \* index of its forEach callback (0-based)
    listed,                      \* number of players the data context holds
                                 \* (their ids are 1..listed)
    availability,                \* the availability Map, in insertion order
    selectedReserveId,           \* Play page state; 0 stands for null
    clicks,                      \* availability events handled so far
    selectedPlayerId             \* FootballPitch state; 0 stands for null

inputVars == <<players, teamSize, config>>
draftVars == <<redTeam, whiteTeam, improved, iterations>>
ovrVars == <<ovrArgs, midpointUp, ovrLog>>
distVars == <<bucket, laterBuckets, forEachIndex>>
pageVars == <<listed, availability, selectedReserveId, clicks,
              selectedPlayerId>>
annealVars == <<currentRed, currentWhite, currentScore, bestRed, bestWhite,
                bestScore, annealIterations, temperature,
                newRed, newWhite, newScore, accepted, swapIndices>>
vars == <<players, teamSize, config, entry, pc, argPlayers, argConfig,
          redTeam, whiteTeam, improved, iterations,
          currentRed, currentWhite, currentScore, bestRed, bestWhite,
          bestScore, annealIterations, temperature,
          newRed, newWhite, newScore, accepted, swapIndices,
          solverOutcome, result, producedBy, scoreLog,
          ovrArgs, midpointUp, ovrLog,
          bucket, laterBuckets, forEachIndex,
          listed, availability, selectedReserveId, clicks, selectedPlayerId>>

NoResult ==
    [kind |-> "none", redTeam |-> <<>>, whiteTeam |-> <<>>,
     algorithm |-> "none", fairnessScore |-> -1, iterations |-> -1,
     error |-> "none"]

\* a returned value; algorithm "none", fairnessScore -1 and iterations -1
\* stand for metadata the result does not carry
Returned(teams, algorithm, fairnessScore, iters) ==
    [kind |-> "ok", redTeam |-> teams.redTeam, whiteTeam |-> teams.whiteTeam,
     algorithm |-> algorithm, fairnessScore |-> fairnessScore,
     iterations |-> iters, error |-> "none"]

\* a thrown error that reaches the caller
Thrown(error) == [NoResult EXCEPT !.kind = "error", !.error = error]

\* no 2-for-2 move is under way (indices are 1-based)
NoIndices == [redIdx1 |-> 0, redIdx2 |-> 0, whiteIdx1 |-> 0, whiteIdx2 |-> 0]

\* no call of calculateOVR is under way
NoArgs == [fitness |-> 0, defence |-> 0, attack |-> 0, ballUse |-> 0,
           position |-> "ALR"]

IdleLocals ==
    /\ entry = "none"
    /\ pc = "idle"
    /\ argPlayers = <<>>
    /\ argConfig = EmptyConfig
    /\ improved = FALSE
    /\ iterations = 0
    /\ currentRed = <<>>
    /\ currentWhite = <<>>
    /\ currentScore = 0
    /\ bestRed = <<>>
    /\ bestWhite = <<>>
    /\ bestScore = 0
    /\ annealIterations = 0
    /\ temperature = 0
    /\ newRed = <<>>
    /\ newWhite = <<>>
    /\ newScore = 0
    /\ accepted = FALSE
    /\ swapIndices = NoIndices
    /\ solverOutcome = "none"
    /\ result = NoResult
    /\ producedBy = "none"
    /\ scoreLog = <<>>
    /\ ovrArgs = NoArgs
    /\ midpointUp = TRUE
    /\ ovrLog = <<>>
    /\ bucket = <<>>
    /\ laterBuckets = <<>>
    /\ forEachIndex = 0
    /\ listed = 0
    /\ availability = <<>>
    /\ selectedReserveId = 0
    /\ clicks = 0
    /\ selectedPlayerId = 0

Init ==
    /\ players \in Pools
    /\ teamSize \in 1..MaxTeamSize
    /\ config \in Configs
    /\ redTeam = <<>>
    /\ whiteTeam = <<>>
    /\ IdleLocals

\* const mergedConfig = { ...DEFAULT_CONFIG, ...config }
mergedConfig(cfg) == Spread(DEFAULT_CONFIG, cfg)

(***************************************************************************)
(* generateBalancedTeams                                                   *)
(***************************************************************************)
CallGenerateBalancedTeams ==
    /\ pc = "idle"
    /\ entry' = "generateBalancedTeams"
    /\ argPlayers' = players
    /\ pc' = "draft"
    /\ UNCHANGED <<inputVars, argConfig, draftVars, annealVars, solverOutcome,
                   result, producedBy, scoreLog, ovrVars, distVars, pageVars>>

\* if (players.length < teamSize * 2) throw
OffByOneInsufficient(pool, ts) == Len(pool) <= ts * 2
insufficient(pool, ts) == Len(pool) < ts * 2

\* lines 67-117: the length check, then selection and distribution.  The
\* error is caught by no caller inside the engine: it reaches the caller of
\* the exported function.
Draft ==
    /\ pc = "draft"
    /\ IF insufficient(argPlayers, teamSize)
       THEN /\ result' = Thrown("InsufficientPlayers")
            /\ pc' = "done"
            /\ UNCHANGED draftVars
       ELSE /\ redTeam' = draftTeams(argPlayers, teamSize).redTeam
            /\ whiteTeam' = draftTeams(argPlayers, teamSize).whiteTeam
            /\ improved' = TRUE
            /\ iterations' = 0
            /\ pc' = "refine"
            /\ UNCHANGED result
    /\ UNCHANGED <<inputVars, entry, argPlayers, argConfig, annealVars,
                   solverOutcome, producedBy, scoreLog, ovrVars,
                   distVars, pageVars>>

refineContinues == improved /\ iterations < maxRefineIterations

\* one pass of while (improved && iterations < maxIterations)
RefinePass ==
    /\ pc = "refine"
    /\ refineContinues
    /\ iterations' = iterations + 1
    /\ improved' = (improvingPairs(Teams(redTeam, whiteTeam)) # {})
    /\ redTeam' = refinePass(Teams(redTeam, whiteTeam)).redTeam
    /\ whiteTeam' = refinePass(Teams(redTeam, whiteTeam)).whiteTeam
    /\ UNCHANGED <<inputVars, entry, pc, argPlayers, argConfig, annealVars,
                   solverOutcome, result, producedBy, scoreLog, ovrVars,
                   distVars, pageVars>>

\* lines 150-156: the two random captains, then applyTeamConstraints; the
\* value returned is the result of generateBalancedTeams
draftReturn(teams, redCaptainIndex, whiteCaptainIndex) ==
    applyTeamConstraints(setCaptain(teams.redTeam, redCaptainIndex),
                         setCaptain(teams.whiteTeam, whiteCaptainIndex))

AssignCaptains ==
    /\ pc = "refine"
    /\ ~refineContinues
    /\ \E redCaptainIndex \in 1..Len(redTeam),
          whiteCaptainIndex \in 1..Len(whiteTeam) :
        LET ret == draftReturn(Teams(redTeam, whiteTeam),
                               redCaptainIndex, whiteCaptainIndex)
        IN  /\ redTeam' = ret.redTeam
            /\ whiteTeam' = ret.whiteTeam
            /\ IF entry = "generateBalancedTeams"
               THEN /\ result' = Returned(ret, "none", -1, -1)
                    /\ producedBy' = "draft"
                    /\ pc' = "done"
               ELSE /\ pc' = "annealInit"
                    /\ UNCHANGED <<result, producedBy>>
    /\ UNCHANGED <<inputVars, entry, argPlayers, argConfig, improved,
                   iterations, annealVars, solverOutcome, scoreLog, ovrVars,
                   distVars, pageVars>>

(***************************************************************************)
(* generateConstraintOptimizedTeams                                        *)
(***************************************************************************)
CallGenerateConstraintOptimizedTeams ==
    /\ pc = "idle"
    /\ entry' = "generateConstraintOptimizedTeams"
    /\ argPlayers' = players
    /\ argConfig' = config
    /\ pc' = "draft"
    /\ UNCHANGED <<inputVars, draftVars, annealVars, solverOutcome, result,
                   producedBy, scoreLog, ovrVars, distVars, pageVars>>

\* lines 172-185: the annealing state starts at the seed
AnnealInit ==
    /\ pc = "annealInit"
    /\ temperature' = mergedConfig(argConfig).temperature
    /\ currentRed' = redTeam
    /\ currentWhite' = whiteTeam
    /\ currentScore' =
           calculateFairnessScore(redTeam, whiteTeam, mergedConfig(argConfig)).score
    /\ bestRed' = copyTeam(redTeam)
    /\ bestWhite' = copyTeam(whiteTeam)
    /\ bestScore' =
           calculateFairnessScore(redTeam, whiteTeam, mergedConfig(argConfig)).score
    /\ annealIterations' = 0
    /\ UNCHANGED <<newRed, newWhite, newScore, accepted, swapIndices>>
    /\ pc' = "anneal"
    /\ UNCHANGED <<inputVars, entry, argPlayers, argConfig, draftVars,
                   solverOutcome, result, producedBy, scoreLog, ovrVars,
                   distVars, pageVars>>

\* while (iterations < maxIterations && temperature > minTemperature)
LoopIgnoresFloor == annealIterations < mergedConfig(argConfig).maxIterations
loopContinues ==
    /\ annealIterations < mergedConfig(argConfig).maxIterations
    /\ temperature > minTemperature

\* the iterations the model explores
explored == annealIterations < IterCap

\* delta < 0 || Math.random() < Math.exp(-delta / temperature): the values
\* the condition can take.  exp(0) = 1 exceeds every Math.random().
MayRejectBetter(delta) == BOOLEAN
acceptChoices(delta) == IF delta <= 0 THEN {TRUE} ELSE BOOLEAN

\* if (currentScore < bestScore) after an accepted neighbour
AnyAcceptedIsBest(score, best) == TRUE
newBest(score, best) == score < best

\* lines 193-210: the rest of an iteration once generateSwap has returned
\* the neighbour
Evaluate(neighbour) ==
    LET score == calculateFairnessScore(
                     neighbour.redTeam, neighbour.whiteTeam,
                     mergedConfig(argConfig)).score
        delta == score - currentScore
    IN  /\ newRed' = neighbour.redTeam
        /\ newWhite' = neighbour.whiteTeam
        /\ newScore' = score
        /\ accepted' \in acceptChoices(delta)
        /\ IF accepted'
           THEN /\ currentRed' = neighbour.redTeam
                /\ currentWhite' = neighbour.whiteTeam
                /\ currentScore' = score
                /\ IF newBest(score, bestScore)
                   THEN /\ bestRed' = copyTeam(neighbour.redTeam)
                        /\ bestWhite' = copyTeam(neighbour.whiteTeam)
                        /\ bestScore' = score
                   ELSE UNCHANGED <<bestRed, bestWhite, bestScore>>
           ELSE UNCHANGED <<currentRed, currentWhite, currentScore,
                            bestRed, bestWhite, bestScore>>
        /\ temperature' = cool(temperature, mergedConfig(argConfig).coolingRate)

\* one iteration of the annealing loop
AnnealStep ==
    /\ pc = "anneal"
    /\ loopContinues
    /\ explored
    /\ annealIterations' = annealIterations + 1
    /\ \E swapType \in {"1-for-1", "2-for-2"} :
       \E neighbour \in generateSwap(Teams(currentRed, currentWhite), swapType) :
           Evaluate(neighbour)
    /\ UNCHANGED <<inputVars, entry, pc, argPlayers, argConfig, draftVars,
                   swapIndices, solverOutcome, result, producedBy, scoreLog,
                   ovrVars, distVars, pageVars>>

\* the algorithm tag of the value the caller receives: part_004's
\* generateILPOptimizedTeams overwrites metadata.algorithm
returnedTag ==
    IF entry = "generateILPOptimizedTeamsEnhanced" THEN "ilp-solver"
    ELSE "constraint-opt"

\* metadata.fairnessScore of the annealing result
ReturnCurrentScore == currentScore
returnedFairnessScore == bestScore

\* lines 213-225: captains on the best snapshot, then the result
ReturnBest ==
    /\ \E redIdx \in 1..Len(bestRed), whiteIdx \in 1..Len(bestWhite) :
        LET teams == assignRandomCaptains(Teams(bestRed, bestWhite),
                                          redIdx, whiteIdx)
        IN  /\ bestRed' = teams.redTeam
            /\ bestWhite' = teams.whiteTeam
            /\ result' = Returned(teams, returnedTag, returnedFairnessScore,
                                  annealIterations)
    /\ producedBy' = "anneal"
    /\ pc' = "done"
    /\ UNCHANGED <<inputVars, entry, argPlayers, argConfig, draftVars,
                   currentRed, currentWhite, currentScore, bestScore,
                   annealIterations, temperature, newRed, newWhite, newScore,
                   accepted, swapIndices, solverOutcome, scoreLog, ovrVars,
                   distVars, pageVars>>

\* the loop is left, or the iterations the model explores are used up
AnnealFinish ==
    /\ pc = "anneal"
    /\ ~(loopContinues /\ explored)
    /\ ReturnBest

(***************************************************************************)
(* generateILPOptimizedTeams, the version that relabels the annealer       *)
(***************************************************************************)
\* { ...config, maxIterations: 1000, temperature: 15, coolingRate: 0.99 }
enhancedConfig(cfg) ==
    Spread(cfg, [EmptyConfig EXCEPT
                    !.has = {"maxIterations", "temperature", "coolingRate"},
                    !.maxIterations = EnhancedMaxIterations,
                    !.temperature = EnhancedTemperature,
                    !.coolingRate = EnhancedCoolingRate])

CallGenerateILPOptimizedTeamsEnhanced ==
    /\ pc = "idle"
    /\ entry' = "generateILPOptimizedTeamsEnhanced"
    /\ argPlayers' = players
    /\ argConfig' = enhancedConfig(config)
    /\ pc' = "draft"
    /\ UNCHANGED <<inputVars, draftVars, annealVars, solverOutcome, result,
                   producedBy, scoreLog, ovrVars, distVars, pageVars>>

(***************************************************************************)
(* generateILPOptimizedTeams, the version that calls the solver            *)
(***************************************************************************)
CallGenerateILPOptimizedTeams ==
    /\ pc = "idle"
    /\ entry' = "generateILPOptimizedTeams"
    /\ pc' = "solve"
    /\ UNCHANGED <<inputVars, argPlayers, argConfig, draftVars, annealVars,
                   solverOutcome, result, producedBy, scoreLog, ovrVars,
                   distVars, pageVars>>

\* lines 243-261
selectedPlayers == selectTopPlayers(players, teamSize)
adjustedMinPos ==
    adjustMinPos(mergedConfig(config).minPositions, selectedPlayers)
model ==
    buildILPModel(selectedPlayers, teamSize, adjustedMinPos,
                  mergedConfig(config).weights)

\* the arguments of the fallback call
\* generateConstraintOptimizedTeams(players, teamSize, config)
FallbackSelectedOnly == selectedPlayers
fallbackPlayers == players
fallbackConfig == config

Fallback(outcome) ==
    /\ solverOutcome' = outcome
    /\ argPlayers' = fallbackPlayers
    /\ argConfig' = fallbackConfig
    /\ pc' = "draft"
    /\ UNCHANGED <<inputVars, entry, draftVars, annealVars, result,
                   producedBy, scoreLog, ovrVars, distVars, pageVars>>

\* solver.Solve(model) throws: the catch block falls back
SolverThrows ==
    /\ pc = "solve"
    /\ Fallback("throws")

\* results.feasible is false: the fallback call is made inside the try
\* block; an error it throws is caught and the call repeated by the catch
\* block, where the same error is thrown again and reaches the caller
SolverInfeasible ==
    /\ pc = "solve"
    /\ Fallback("infeasible")

\* results.feasible is true and results.x0.. are an optimum of the model.  When a
\* team is empty assignRandomCaptains throws a TypeError inside the try
\* block and the catch block falls back.
SolverFeasible ==
    /\ pc = "solve"
    /\ \E x \in solverOptimum(model) :
        LET teams == extractTeams(selectedPlayers, x, teamSize)
        IN  IF teams.redTeam = <<>> \/ teams.whiteTeam = <<>>
            THEN Fallback("feasible")
            ELSE \E redIdx \in 1..Len(teams.redTeam),
                    whiteIdx \in 1..Len(teams.whiteTeam) :
                  LET final == assignRandomCaptains(teams, redIdx, whiteIdx)
                  IN  /\ result' =
                            Returned(final, "ilp-solver",
                                     calculateFairnessScore(
                                         final.redTeam, final.whiteTeam,
                                         mergedConfig(config)).score,
                                     -1)
                      /\ solverOutcome' = "feasible"
                      /\ producedBy' = "solver"
                      /\ pc' = "done"
                      /\ UNCHANGED <<inputVars, entry, argPlayers, argConfig,
                                     draftVars, annealVars, scoreLog, ovrVars,
                                     distVars, pageVars>>

Next ==
    \/ CallGenerateBalancedTeams
    \/ Draft
    \/ RefinePass
    \/ AssignCaptains
    \/ CallGenerateConstraintOptimizedTeams
    \/ AnnealInit
    \/ AnnealStep
    \/ AnnealFinish
    \/ CallGenerateILPOptimizedTeamsEnhanced
    \/ CallGenerateILPOptimizedTeams
    \/ SolverThrows
    \/ SolverInfeasible
    \/ SolverFeasible

Spec == Init /\ [][Next]_vars

(***************************************************************************)
(* The scorer on its own: calculateFairnessScore called on two rosters     *)
(***************************************************************************)
RedList ==
    <<MkPlayer(11, "r1", "DEF", 3, 4, 2, 3),
      MkPlayer(12, "r2", "ATT", 9, 5, 10, 8),
      MkPlayer(13, "r3", "ALR", 6, 6, 6, 6),
      MkPlayer(14, "r4", "DEF", 8, 9, 4, 7),
      MkPlayer(15, "r5", "ATT", 5, 2, 6, 4),
      MkPlayer(16, "r6", "DEF", 10, 10, 6, 9),
      MkPlayer(17, "r7", "ALR", 7, 7, 8, 7),
      MkPlayer(18, "r8", "ATT", 4, 3, 5, 5),
      MkPlayer(19, "r9", "DEF", 6, 8, 3, 5)>>

WhiteList ==
    <<MkPlayer(21, "w1", "ALR", 8, 8, 8, 8),
      MkPlayer(22, "w2", "ALR", 2, 3, 2, 2),
      MkPlayer(23, "w3", "DEF", 7, 9, 3, 6),
      MkPlayer(24, "w4", "ATT", 6, 4, 9, 7),
      MkPlayer(25, "w5", "ALR", 5, 5, 5, 5),
      MkPlayer(26, "w6", "ATT", 10, 6, 10, 10),
      MkPlayer(27, "w7", "DEF", 4, 6, 2, 4),
      MkPlayer(28, "w8", "ALR", 9, 9, 9, 9),
      MkPlayer(29, "w9", "ATT", 7, 5, 8, 6)>>

\* the rosters: runs of consecutive players of a list, as TeamPlayers
Rosters(list) ==
    {[k \in 1..w[2] |-> ToTeamPlayer(list[w[1] + k - 1])] :
        w \in {v \in (1..Len(list)) \X (0..MaxRoster) :
                  v[1] + v[2] - 1 <= Len(list)}}

\* { weights: { ovr: 2.0 }, minPositions: { ALR: 2 } }
PartialConfig ==
    [EmptyConfig EXCEPT
        !.has = {"minPositions", "weights"},
        !.minPositions = MinPositions({"ALR"}, 0, 0, 2),
        !.weights = [DEFAULT_CONFIG.weights EXCEPT !.has = {"ovr"}, !.ovr = 20]]

ScoreConfigs == {EmptyConfig, CustomConfig, PartialConfig}

ScoreInit ==
    /\ redTeam \in Rosters(RedList)
    /\ whiteTeam \in Rosters(WhiteList)
    /\ config \in ScoreConfigs
    /\ players = <<>>
    /\ teamSize = 0
    /\ entry = "calculateFairnessScore"
    /\ pc = "score"
    /\ argPlayers = <<>>
    /\ argConfig = EmptyConfig
    /\ improved = FALSE
    /\ iterations = 0
    /\ currentRed = <<>>
    /\ currentWhite = <<>>
    /\ currentScore = 0
    /\ bestRed = <<>>
    /\ bestWhite = <<>>
    /\ bestScore = 0
    /\ annealIterations = 0
    /\ temperature = 0
    /\ newRed = <<>>
    /\ newWhite = <<>>
    /\ newScore = 0
    /\ accepted = FALSE
    /\ swapIndices = NoIndices
    /\ solverOutcome = "none"
    /\ result = NoResult
    /\ producedBy = "none"
    /\ scoreLog = <<>>
    /\ ovrArgs = NoArgs
    /\ midpointUp = TRUE
    /\ ovrLog = <<>>
    /\ bucket = <<>>
    /\ laterBuckets = <<>>
    /\ forEachIndex = 0
    /\ listed = 0
    /\ availability = <<>>
    /\ selectedReserveId = 0
    /\ clicks = 0
    /\ selectedPlayerId = 0

\* what a roster argument holds after calculateFairnessScore returns: the
\* only array operation that reorders is the sort in getTopSum
rosterAfterScore(team) == ArrayAfterTopSum(team)

\* one call calculateFairnessScore(redTeam, whiteTeam, config)
ScoreCall ==
    /\ pc = "score"
    /\ Len(scoreLog) < MaxCalls
    /\ scoreLog' = Append(scoreLog,
                          calculateFairnessScore(redTeam, whiteTeam, config))
    /\ redTeam' = rosterAfterScore(redTeam)
    /\ whiteTeam' = rosterAfterScore(whiteTeam)
    /\ UNCHANGED <<players, teamSize, config, entry, pc, argPlayers,
                   argConfig, improved, iterations, annealVars,
                   solverOutcome, result, producedBy, ovrVars,
                   distVars, pageVars>>

ScoreNext == ScoreCall

ScoreSpec == ScoreInit /\ [][ScoreNext]_vars

(***************************************************************************)
(* calculateOVR on its own: the Configuration page computing the OVR of    *)
(* the attributes and position entered for a player                        *)
(***************************************************************************)
OvrInit ==
    /\ ovrArgs \in [fitness : 1..MaxAttribute, defence : 1..MaxAttribute,
                    attack : 1..MaxAttribute, ballUse : 1..MaxAttribute,
                    position : AllPositions]
    /\ midpointUp \in BOOLEAN
    /\ ovrLog = <<>>
    /\ bucket = <<>>
    /\ laterBuckets = <<>>
    /\ forEachIndex = 0
    /\ listed = 0
    /\ availability = <<>>
    /\ selectedReserveId = 0
    /\ clicks = 0
    /\ selectedPlayerId = 0
    /\ players = <<>>
    /\ teamSize = 0
    /\ config = EmptyConfig
    /\ redTeam = <<>>
    /\ whiteTeam = <<>>
    /\ entry = "calculateOVR"
    /\ pc = "ovr"
    /\ argPlayers = <<>>
    /\ argConfig = EmptyConfig
    /\ improved = FALSE
    /\ iterations = 0
    /\ currentRed = <<>>
    /\ currentWhite = <<>>
    /\ currentScore = 0
    /\ bestRed = <<>>
    /\ bestWhite = <<>>
    /\ bestScore = 0
    /\ annealIterations = 0
    /\ temperature = 0
    /\ newRed = <<>>
    /\ newWhite = <<>>
    /\ newScore = 0
    /\ accepted = FALSE
    /\ swapIndices = NoIndices
    /\ solverOutcome = "none"
    /\ result = NoResult
    /\ producedBy = "none"
    /\ scoreLog = <<>>

\* one call calculateOVR(fitness, defence, attack, ballUse, position)
OvrCall ==
    /\ pc = "ovr"
    /\ Len(ovrLog) < MaxCalls
    /\ ovrLog' = Append(ovrLog,
                        calculateOVR(ovrArgs.fitness, ovrArgs.defence,
                                     ovrArgs.attack, ovrArgs.ballUse,
                                     ovrArgs.position, midpointUp))
    /\ UNCHANGED <<inputVars, entry, pc, argPlayers, argConfig, draftVars,
                   annealVars, solverOutcome, result, producedBy, scoreLog,
                   ovrArgs, midpointUp, distVars, pageVars>>

OvrNext == OvrCall

OvrSpec == OvrInit /\ [][OvrNext]_vars

(***************************************************************************)
(* generateILPOptimizedTeams for a 5-a-side match: the smallest team size  *)
(* at which buildILPModel adds the eliteBalance row                        *)
(***************************************************************************)
LeagueSquad ==
    <<MkPlayer(31, "Ned", "ATT", 6, 3, 8, 4),
      MkPlayer(32, "Abe", "ALR", 10, 8, 6, 10),
      MkPlayer(33, "Gus", "ATT", 5, 10, 2, 8),
      MkPlayer(34, "Cal", "ATT", 10, 6, 7, 6),
      MkPlayer(35, "Kit", "DEF", 4, 3, 7, 4),
      MkPlayer(36, "Eli", "DEF", 10, 4, 5, 7),
      MkPlayer(37, "Ben", "ALR", 9, 7, 7, 10),
      MkPlayer(38, "Lou", "ALR", 3, 3, 3, 3),
      MkPlayer(39, "Dov", "ATT", 6, 10, 7, 7),
      MkPlayer(40, "Ira", "ALR", 6, 2, 5, 4),
      MkPlayer(41, "Fin", "ATT", 7, 8, 7, 4)>>

\* the whole squad selected, or all but one of it
LeaguePools ==
    {filterByIds(LeagueSquad, chosen) :
        chosen \in {c \in SUBSET {LeagueSquad[i].id : i \in 1..Len(LeagueSquad)} :
                       Cardinality(c) >= Len(LeagueSquad) - 1}}

IlpInit ==
    /\ players \in LeaguePools
    /\ teamSize = EliteMinTeamSize
    /\ config \in Configs
    /\ redTeam = <<>>
    /\ whiteTeam = <<>>
    /\ IdleLocals

IlpNext ==
    \/ CallGenerateILPOptimizedTeams
    \/ SolverFeasible

IlpSpec == IlpInit /\ [][IlpNext]_vars

(***************************************************************************)
(* generateBalancedTeams for a 3-a-side match, its distribution followed   *)
(* push by push                                                            *)
(***************************************************************************)
\* the selections of the league squad that are drafted: just enough players
\* for two teams, or one more
DraftPools ==
    {filterByIds(LeagueSquad, chosen) :
        chosen \in {c \in SUBSET {LeagueSquad[i].id : i \in 1..Len(LeagueSquad)} :
                       /\ Cardinality(c) >= 2 * DraftTeamSize
                       /\ Cardinality(c) <= 2 * DraftTeamSize + 1}}

DraftInit ==
    /\ players \in DraftPools
    /\ teamSize = DraftTeamSize
    /\ config = EmptyConfig
    /\ redTeam = <<>>
    /\ whiteTeam = <<>>
    /\ IdleLocals

\* lines 67-82: the length check, the selection, the three position groups
\* and the two empty teams
SelectPlayers ==
    /\ pc = "draft"
    /\ IF insufficient(argPlayers, teamSize)
       THEN /\ result' = Thrown("InsufficientPlayers")
            /\ pc' = "done"
            /\ UNCHANGED <<redTeam, whiteTeam, distVars>>
       ELSE /\ redTeam' = <<>>
            /\ whiteTeam' = <<>>
            /\ bucket' = <<>>
            /\ forEachIndex' = 0
            /\ laterBuckets' =
                   LET selected == selectTopPlayers(argPlayers, teamSize)
                   IN  <<FilterPosition(selected, "DEF"),
                         FilterPosition(selected, "ATT"),
                         FilterPosition(selected, "ALR")>>
            /\ pc' = "distribute"
            /\ UNCHANGED result
    /\ UNCHANGED <<inputVars, entry, argPlayers, argConfig, improved,
                   iterations, annealVars, solverOutcome, producedBy,
                   scoreLog, ovrVars, pageVars>>

\* the forEach of the group at hand is over
forEachDone == forEachIndex >= Len(bucket)

\* lines 85-86 and 105-107: the next call of distributePosition sorts its
\* group
DistributePosition ==
    /\ pc = "distribute"
    /\ forEachDone
    /\ laterBuckets # <<>>
    /\ bucket' = SortByOvrDesc(Head(laterBuckets))
    /\ laterBuckets' = Tail(laterBuckets)
    /\ forEachIndex' = 0
    /\ UNCHANGED <<inputVars, entry, pc, argPlayers, argConfig, draftVars,
                   annealVars, solverOutcome, result, producedBy, scoreLog,
                   ovrVars, pageVars>>

\* lines 87-102: one call of the forEach callback
ForEachPlayer ==
    /\ pc = "distribute"
    /\ ~forEachDone
    /\ LET pushed == pushPlayer(bucket[forEachIndex + 1], forEachIndex,
                                Teams(redTeam, whiteTeam), teamSize)
       IN  /\ redTeam' = pushed.redTeam
           /\ whiteTeam' = pushed.whiteTeam
    /\ forEachIndex' = forEachIndex + 1
    /\ UNCHANGED <<inputVars, entry, pc, argPlayers, argConfig, improved,
                   iterations, annealVars, solverOutcome, result, producedBy,
                   scoreLog, ovrVars, bucket, laterBuckets, pageVars>>

\* lines 110-122: the two size-balancing loops, run to their end, and the
\* start of the refinement
BalanceSizes ==
    /\ pc = "distribute"
    /\ forEachDone
    /\ laterBuckets = <<>>
    /\ LET balanced == moveSurplusWhite(
                           moveSurplusRed(Teams(redTeam, whiteTeam), teamSize),
                           teamSize)
       IN  /\ redTeam' = balanced.redTeam
           /\ whiteTeam' = balanced.whiteTeam
    /\ improved' = TRUE
    /\ iterations' = 0
    /\ pc' = "refine"
    /\ UNCHANGED <<inputVars, entry, argPlayers, argConfig, annealVars,
                   solverOutcome, result, producedBy, scoreLog, ovrVars,
                   distVars, pageVars>>

DraftNext ==
    \/ CallGenerateBalancedTeams
    \/ SelectPlayers
    \/ DistributePosition
    \/ ForEachPlayer
    \/ BalanceSizes
    \/ RefinePass
    \/ AssignCaptains

DraftSpec == DraftInit /\ [][DraftNext]_vars

(***************************************************************************)
(* Availability and reserves on the Play page.  The availability Map of    *)
(* the data context is a sequence of its values in insertion order; a      *)
(* value is [playerId, status, has, reserveOrder], where has is empty when *)
(* reserveOrder is null.  A handler is one step: every write it makes is   *)
(* computed from the availability its closure holds.                       *)
(***************************************************************************)
Statuses == {"in", "out", "unconfirmed"}

Squaddie(playerId, status) ==
    [playerId |-> playerId, status |-> status, has |-> {}, reserveOrder |-> 0]

Reserve(playerId, status, reserveOrder) ==
    [playerId |-> playerId, status |-> status, has |-> {"reserveOrder"},
     reserveOrder |-> reserveOrder]

\* a.reserveOrder !== null
isReserve(a) == "reserveOrder" \in a.has

\* availability.has(playerId)
mapHas(map, playerId) == \E i \in 1..Len(map) : map[i].playerId = playerId

\* availability.get(playerId), for a key the Map has
mapGet(map, playerId) ==
    map[CHOOSE i \in 1..Len(map) : map[i].playerId = playerId]

\* newMap.set(update.playerId, ...): a key the Map has keeps its place
mapSet(map, update) ==
    IF mapHas(map, update.playerId)
    THEN [i \in 1..Len(map) |->
              IF map[i].playerId = update.playerId THEN update ELSE map[i]]
    ELSE Append(map, update)

\* updateAvailability(updates): the local state after the batch is written
RECURSIVE updateAvailability(_, _)
updateAvailability(map, updates) ==
    IF updates = <<>> THEN map
    ELSE updateAvailability(mapSet(map, Head(updates)), Tail(updates))

\* .filter((a) => a.reserveOrder !== null && a.playerId !== exceptId)
RECURSIVE reservesExcept(_, _)
reservesExcept(map, exceptId) ==
    IF map = <<>> THEN <<>>
    ELSE IF isReserve(Head(map)) /\ Head(map).playerId # exceptId
         THEN <<Head(map)>> \o reservesExcept(Tail(map), exceptId)
         ELSE reservesExcept(Tail(map), exceptId)

\* Array.prototype.sort by reserveOrder ascending (stable)
RECURSIVE insertByOrder(_, _)
insertByOrder(sorted, a) ==
    IF sorted = <<>> THEN <<a>>
    ELSE IF sorted[Len(sorted)].reserveOrder <= a.reserveOrder
         THEN Append(sorted, a)
         ELSE Append(insertByOrder(SubSeq(sorted, 1, Len(sorted) - 1), a),
                     sorted[Len(sorted)])

RECURSIVE sortByReserveOrder(_)
sortByReserveOrder(list) ==
    IF list = <<>> THEN <<>>
    ELSE insertByOrder(sortByReserveOrder(SubSeq(list, 1, Len(list) - 1)),
                       list[Len(list)])

\* the updates reorderReservesAfterPromotion writes
reorderUpdates(map, promotedPlayerId) ==
    LET currentReserves == sortByReserveOrder(reservesExcept(map, promotedPlayerId))
    IN  [index \in 1..Len(currentReserves) |->
            Reserve(currentReserves[index].playerId,
                    currentReserves[index].status, index)]

\* Math.max(0, ...orders of the reserves)
maxOrder(map) ==
    LET orders == {map[i].reserveOrder :
                      i \in {k \in 1..Len(map) : isReserve(map[k])}} \cup {0}
    IN  CHOOSE m \in orders : \A o \in orders : o <= m

\* availability after handleStatusChange(playerId, newStatus)
handleStatusChange(map, playerId, newStatus) ==
    LET known == mapHas(map, playerId)
        currentIsNull == ~known \/ ~isReserve(mapGet(map, playerId))
    IN  IF newStatus = "out" /\ currentIsNull
        THEN updateAvailability(
                 map, <<Reserve(playerId, newStatus, maxOrder(map) + 1)>>)
        ELSE IF newStatus = "in" /\ ~currentIsNull
        THEN updateAvailability(
                 updateAvailability(map, reorderUpdates(map, playerId)),
                 <<Squaddie(playerId, newStatus)>>)
        ELSE IF currentIsNull
        THEN updateAvailability(map, <<Squaddie(playerId, newStatus)>>)
        ELSE updateAvailability(
                 map, <<Reserve(playerId, newStatus,
                                mapGet(map, playerId).reserveOrder)>>)

\* the ids of the players without availability, in list order
RECURSIVE playersWithoutAvailability(_, _, _)
playersWithoutAvailability(map, from, to) ==
    IF from > to THEN <<>>
    ELSE IF mapHas(map, from)
         THEN playersWithoutAvailability(map, from + 1, to)
         ELSE <<from>> \o playersWithoutAvailability(map, from + 1, to)

\* the updates initializeAvailability writes (index is 0-based in the code)
initialUpdates(map, playersLength) ==
    LET without == playersWithoutAvailability(map, 1, playersLength)
        existingReserveCount ==
            Cardinality({i \in 1..Len(map) : isReserve(map[i])})
    IN  [k \in 1..Len(without) |->
            IF k - 1 < PLAYING_SQUAD_SIZE - (playersLength - Len(without))
            THEN Squaddie(without[k], "unconfirmed")
            ELSE Reserve(without[k], "unconfirmed",
                         (k - 1) - PLAYING_SQUAD_SIZE + existingReserveCount + 1)]

\* the players shown as reserves (lines 90-97)
reserveIds ==
    {id \in 1..listed : mapHas(availability, id)
                          /\ isReserve(mapGet(availability, id))}

PageInit ==
    /\ players = <<>>
    /\ teamSize = 0
    /\ config = EmptyConfig
    /\ redTeam = <<>>
    /\ whiteTeam = <<>>
    /\ IdleLocals

\* refreshPlayers: the first load brings any number of players, a later one
\* the players created since
RefreshPlayers ==
    /\ listed < MaxListed
    /\ \E length \in (listed + 1)..MaxListed : listed' = length
    /\ UNCHANGED <<inputVars, entry, pc, argPlayers, argConfig, draftVars,
                   annealVars, solverOutcome, result, producedBy, scoreLog,
                   ovrVars, distVars, availability, selectedReserveId,
                   clicks, selectedPlayerId>>

\* the effect of lines 220-247
InitializeAvailability ==
    /\ listed > 0
    /\ playersWithoutAvailability(availability, 1, listed) # <<>>
    /\ availability' =
           updateAvailability(availability, initialUpdates(availability, listed))
    /\ UNCHANGED <<inputVars, entry, pc, argPlayers, argConfig, draftVars,
                   annealVars, solverOutcome, result, producedBy, scoreLog,
                   ovrVars, distVars, listed, selectedReserveId, clicks,
                   selectedPlayerId>>

HandleStatusChange ==
    /\ clicks < MaxClicks
    /\ clicks' = clicks + 1
    /\ \E playerId \in 1..listed, newStatus \in Statuses :
           availability' = handleStatusChange(availability, playerId, newStatus)
    /\ UNCHANGED <<inputVars, entry, pc, argPlayers, argConfig, draftVars,
                   annealVars, solverOutcome, result, producedBy, scoreLog,
                   ovrVars, distVars, listed, selectedReserveId,
                   selectedPlayerId>>

\* handleReserveClick(playerId) on one of the reserves shown
HandleReserveClick ==
    /\ clicks < MaxClicks
    /\ clicks' = clicks + 1
    /\ \E playerId \in reserveIds :
           IF selectedReserveId = 0
           THEN /\ selectedReserveId' = playerId
                /\ UNCHANGED availability
           ELSE IF selectedReserveId = playerId
           THEN /\ selectedReserveId' = 0
                /\ UNCHANGED availability
           ELSE /\ selectedReserveId' = 0
                /\ IF /\ mapHas(availability, selectedReserveId)
                      /\ isReserve(mapGet(availability, selectedReserveId))
                   THEN LET reserve1 == mapGet(availability, selectedReserveId)
                            reserve2 == mapGet(availability, playerId)
                        IN  availability' =
                                updateAvailability(
                                    availability,
                                    <<Reserve(selectedReserveId, reserve1.status,
                                              reserve2.reserveOrder),
                                      Reserve(playerId, reserve2.status,
                                              reserve1.reserveOrder)>>)
                   ELSE UNCHANGED availability
    /\ UNCHANGED <<inputVars, entry, pc, argPlayers, argConfig, draftVars,
                   annealVars, solverOutcome, result, producedBy, scoreLog,
                   ovrVars, distVars, listed, selectedPlayerId>>

\* promoteReserveToSquad(playerId) on one of the reserves shown
PromoteReserveToSquad ==
    /\ clicks < MaxClicks
    /\ clicks' = clicks + 1
    /\ \E playerId \in reserveIds :
           /\ availability' =
                  updateAvailability(
                      updateAvailability(availability,
                                         reorderUpdates(availability, playerId)),
                      <<Squaddie(playerId, mapGet(availability, playerId).status)>>)
           /\ selectedReserveId' =
                  IF selectedReserveId = playerId THEN 0 ELSE selectedReserveId
    /\ UNCHANGED <<inputVars, entry, pc, argPlayers, argConfig, draftVars,
                   annealVars, solverOutcome, result, producedBy, scoreLog,
                   ovrVars, distVars, listed, selectedPlayerId>>

PageNext ==
    \/ RefreshPlayers
    \/ InitializeAvailability
    \/ HandleStatusChange
    \/ HandleReserveClick
    \/ PromoteReserveToSquad

PageSpec == PageInit /\ [][PageNext]_vars

(***************************************************************************)
(* generateConstraintOptimizedTeams run to its end, with the 2-for-2 move  *)
(* of generateSwap followed draw by draw.  No cap on the iterations: the   *)
(* loop condition alone ends the loop.                                     *)
(***************************************************************************)
\* { maxIterations: 3 }
BriefConfig ==
    [EmptyConfig EXCEPT !.has = {"maxIterations"}, !.maxIterations = 3]

\* the calls that are run to their end: players, teamSize, config
FullRuns ==
    ({filterByIds(Squad, {1, 2}), filterByIds(Squad, {1})} \X {1}
        \X {EmptyConfig, ColdConfig, CustomConfig, BriefConfig})
    \cup ({filterByIds(Squad, {1, 3, 5, 6})} \X {2}
            \X {ColdConfig, CustomConfig, BriefConfig})

FullRunInit ==
    /\ \E run \in FullRuns :
           /\ players = run[1]
           /\ teamSize = run[2]
           /\ config = run[3]
    /\ redTeam = <<>>
    /\ whiteTeam = <<>>
    /\ IdleLocals

\* an iteration that draws swapType '1-for-1'
OneForOneIteration ==
    /\ pc = "anneal"
    /\ loopContinues
    /\ annealIterations' = annealIterations + 1
    /\ \E neighbour \in oneForOne(Teams(currentRed, currentWhite)) :
           Evaluate(neighbour)
    /\ UNCHANGED <<inputVars, entry, pc, argPlayers, argConfig, draftVars,
                   swapIndices, solverOutcome, result, producedBy, scoreLog,
                   ovrVars, distVars, pageVars>>

\* while (redIdx2 === redIdx1 && newRed.length > 1)
redrawsRed ==
    swapIndices.redIdx2 = swapIndices.redIdx1 /\ Len(currentRed) > 1

\* while (whiteIdx2 === whiteIdx1 && newWhite.length > 1)
redrawsWhite ==
    swapIndices.whiteIdx2 = swapIndices.whiteIdx1 /\ Len(currentWhite) > 1

\* an iteration that draws swapType '2-for-2': iterations++, then the first
\* draws of redIdx1 and redIdx2
TwoForTwoDrawRed ==
    /\ pc = "anneal"
    /\ loopContinues
    /\ annealIterations' = annealIterations + 1
    /\ \E idx1 \in 1..Len(currentRed), idx2 \in 1..Len(currentRed) :
           swapIndices' = [NoIndices EXCEPT !.redIdx1 = idx1, !.redIdx2 = idx2]
    /\ pc' = "redrawRed"
    /\ UNCHANGED <<inputVars, entry, argPlayers, argConfig, draftVars,
                   currentRed, currentWhite, currentScore, bestRed, bestWhite,
                   bestScore, temperature, newRed, newWhite, newScore,
                   accepted, solverOutcome, result, producedBy, scoreLog,
                   ovrVars, distVars, pageVars>>

\* one pass of the re-draw loop of redIdx2
RedrawRed ==
    /\ pc = "redrawRed"
    /\ redrawsRed
    /\ \E idx2 \in 1..Len(currentRed) :
           swapIndices' = [swapIndices EXCEPT !.redIdx2 = idx2]
    /\ UNCHANGED <<inputVars, entry, pc, argPlayers, argConfig, draftVars,
                   currentRed, currentWhite, currentScore, bestRed, bestWhite,
                   bestScore, annealIterations, temperature, newRed, newWhite,
                   newScore, accepted, solverOutcome, result, producedBy,
                   scoreLog, ovrVars, distVars, pageVars>>

\* the re-draw loop of redIdx2 is left: the first draws of whiteIdx1 and
\* whiteIdx2
TwoForTwoDrawWhite ==
    /\ pc = "redrawRed"
    /\ ~redrawsRed
    /\ \E idx1 \in 1..Len(currentWhite), idx2 \in 1..Len(currentWhite) :
           swapIndices' = [swapIndices EXCEPT !.whiteIdx1 = idx1,
                                              !.whiteIdx2 = idx2]
    /\ pc' = "redrawWhite"
    /\ UNCHANGED <<inputVars, entry, argPlayers, argConfig, draftVars,
                   currentRed, currentWhite, currentScore, bestRed, bestWhite,
                   bestScore, annealIterations, temperature, newRed, newWhite,
                   newScore, accepted, solverOutcome, result, producedBy,
                   scoreLog, ovrVars, distVars, pageVars>>

\* one pass of the re-draw loop of whiteIdx2
RedrawWhite ==
    /\ pc = "redrawWhite"
    /\ redrawsWhite
    /\ \E idx2 \in 1..Len(currentWhite) :
           swapIndices' = [swapIndices EXCEPT !.whiteIdx2 = idx2]
    /\ UNCHANGED <<inputVars, entry, pc, argPlayers, argConfig, draftVars,
                   currentRed, currentWhite, currentScore, bestRed, bestWhite,
                   bestScore, annealIterations, temperature, newRed, newWhite,
                   newScore, accepted, solverOutcome, result, producedBy,
                   scoreLog, ovrVars, distVars, pageVars>>

\* the re-draw loop of whiteIdx2 is left: the two exchanges, then the rest
\* of the iteration
TwoForTwoApply ==
    /\ pc = "redrawWhite"
    /\ ~redrawsWhite
    /\ Evaluate(swapPlayers(
                    swapPlayers(Teams(currentRed, currentWhite),
                                swapIndices.redIdx1, swapIndices.whiteIdx1),
                    swapIndices.redIdx2, swapIndices.whiteIdx2))
    /\ pc' = "anneal"
    /\ UNCHANGED <<inputVars, entry, argPlayers, argConfig, draftVars,
                   annealIterations, swapIndices, solverOutcome, result,
                   producedBy, scoreLog, ovrVars, distVars, pageVars>>

\* the loop condition is false: lines 213-225
LoopExit ==
    /\ pc = "anneal"
    /\ ~loopContinues
    /\ ReturnBest

FullRunNext ==
    \/ CallGenerateConstraintOptimizedTeams
    \/ Draft
    \/ RefinePass
    \/ AssignCaptains
    \/ AnnealInit
    \/ OneForOneIteration
    \/ TwoForTwoDrawRed
    \/ RedrawRed
    \/ TwoForTwoDrawWhite
    \/ RedrawWhite
    \/ TwoForTwoApply
    \/ LoopExit

\* The call is synchronous code on one thread: until it has returned, it
\* keeps taking steps.  Some step that changes the state is possible in every
\* state but pc = "done", so this is weak fairness of FullRunNext with its
\* enabling condition written out.
keepsRunning == []<>(pc = "done") \/ []<><<FullRunNext>>_vars

\* Every Math.random() draw is a fair choice: a re-draw that returns the same
\* index again changes nothing, and one that returns another index is
\* eventually made.
FullRunSpec ==
    /\ FullRunInit
    /\ [][FullRunNext]_vars
    /\ keepsRunning
    /\ WF_vars(RedrawRed)
    /\ WF_vars(RedrawWhite)

(***************************************************************************)
(* Properties of the allocators (specification Spec)                       *)
(***************************************************************************)
ids(team) == {team[i].id : i \in 1..Len(team)}
captains(team) == {i \in 1..Len(team) : team[i].isCaptain}
returned == result.kind = "ok"

\* C1: whenever an allocator returns a result, redTeam and whiteTeam both
\* contain exactly teamSize players.
C1_TeamSizeInvariant ==
    returned =>
        /\ Len(result.redTeam) = teamSize
        /\ Len(result.whiteTeam) = teamSize

\* C2: generateBalancedTeams and generateConstraintOptimizedTeams raise the
\* insufficient-players error, and return no teams, exactly when
\* players.length < 2 * teamSize: with too few players control never gets
\* past the length check and the call ends in the error; with enough
\* players no error is ever raised.
C2_InsufficientPlayersError ==
    entry \in {"generateBalancedTeams", "generateConstraintOptimizedTeams"} =>
        IF Len(players) < 2 * teamSize
        THEN /\ pc \in {"draft", "done"}
             /\ ~returned
             /\ pc = "done" =>
                    /\ result = Thrown("InsufficientPlayers")
                    /\ result.redTeam = <<>>
                    /\ result.whiteTeam = <<>>
        ELSE /\ result.kind # "error"
             /\ pc = "done" => returned

C2_Witness ==
    /\ entry = "generateConstraintOptimizedTeams"
    /\ Len(players) = 2 * teamSize - 1
    /\ result.kind = "error"

\* C3: in every returned result exactly one player of redTeam and exactly
\* one player of whiteTeam is captain.
C3_OneCaptainPerTeam ==
    returned =>
        /\ Cardinality(captains(result.redTeam)) = 1
        /\ Cardinality(captains(result.whiteTeam)) = 1

\* C4: given at least 2 * teamSize players, the returned teams are disjoint,
\* hold 2 * teamSize distinct players of the input between them, and no
\* player left out has a higher OVR than a player included.
C4_TopPlayersPartition ==
    (returned /\ Len(players) >= 2 * teamSize) =>
        LET both == result.redTeam \o result.whiteTeam
            included == {ToPlayer(both[i]) : i \in 1..Len(both)}
        IN  /\ ids(result.redTeam) \cap ids(result.whiteTeam) = {}
            /\ Len(both) = 2 * teamSize
            /\ Cardinality(ids(both)) = 2 * teamSize
            /\ included \subseteq Range(players)
            /\ \A out \in Range(players) \ included :
                   \A kept \in included : out.ovr <= kept.ovr

C4_Witness ==
    /\ returned
    /\ producedBy = "anneal"
    /\ annealIterations > 0
    /\ Len(players) > 2 * teamSize
    /\ \E i \in 1..Len(players) : \E j \in 1..Len(players) :
           /\ i < j
           /\ players[i].id \notin ids(result.redTeam \o result.whiteTeam)
           /\ players[j].id \in ids(result.redTeam \o result.whiteTeam)

\* the Fairness Scorer's value on the seed generateBalancedTeams returned
seedScore ==
    calculateFairnessScore(redTeam, whiteTeam, mergedConfig(argConfig)).score

\* C5: in every run of generateConstraintOptimizedTeams the best-ever score,
\* and so the returned fairnessScore, is at most the score of the draft seed.
C5_BestNeverWorseThanSeed ==
    /\ pc = "anneal" => bestScore <= seedScore
    /\ (returned /\ producedBy = "anneal") => result.fairnessScore <= seedScore

C5_Witness ==
    /\ returned
    /\ producedBy = "anneal"
    /\ currentScore > seedScore
    /\ result.fairnessScore <= seedScore

\* C6: given at least 2 * teamSize players, once the solver has reported an
\* infeasible model or thrown, generateILPOptimizedTeams raises no error: it
\* runs generateConstraintOptimizedTeams on the full player list with the
\* caller's config and returns its result, tagged 'constraint-opt'.
C6_FallbackOnSolverFailure ==
    (/\ entry = "generateILPOptimizedTeams"
     /\ Len(players) >= 2 * teamSize
     /\ solverOutcome \in {"infeasible", "throws"}) =>
        /\ result.kind # "error"
        /\ argPlayers = players
        /\ argConfig = config
        /\ pc = "done" =>
               /\ returned
               /\ producedBy = "anneal"
               /\ result.algorithm = "constraint-opt"

C6_Witness ==
    /\ entry = "generateILPOptimizedTeams"
    /\ solverOutcome = "infeasible"
    /\ Len(players) > 2 * teamSize
    /\ returned
    /\ result.algorithm = "constraint-opt"

\* C7: a result is tagged 'ilp-solver' only if its teams were extracted from
\* a feasible solver solution, and every result the annealing routine
\* produced is tagged 'constraint-opt'.
C7_TagTellsProvenance ==
    returned =>
        /\ result.algorithm = "ilp-solver" => producedBy = "solver"
        /\ producedBy = "anneal" => result.algorithm = "constraint-opt"

RefSum(team, attr) ==
    SumOver([i \in 1..Len(team) |-> team[i][attr]], 1..Len(team))

RefDiff(red, white, attr) == Abs(RefSum(red, attr) - RefSum(white, attr))

\* the sum of the k highest OVRs of a team: the largest sum k of its
\* players can have (all of them when it has fewer than k)
RefTopSum(team, k) ==
    LET sums == {SumOver([i \in 1..Len(team) |-> team[i].ovr], S) :
                    S \in {T \in SUBSET (1..Len(team)) :
                              Cardinality(T) = Min(k, Len(team))}}
    IN  CHOOSE m \in sums : \A other \in sums : other <= m

RefWeight(cfg, w) ==
    IF "weights" \in cfg.has /\ w \in cfg.weights.has
    THEN cfg.weights[w] ELSE DEFAULT_CONFIG.weights[w]

RefMinRequired(cfg, pos) ==
    IF "minPositions" \in cfg.has /\ pos \in cfg.minPositions.has
    THEN cfg.minPositions[pos] ELSE DEFAULT_CONFIG.minPositions[pos]

RefActualCount(team, pos) ==
    Cardinality({i \in 1..Len(team) : team[i].position = pos})

RefShortfall(team, cfg, pos) ==
    IF RefMinRequired(cfg, pos) - RefActualCount(team, pos) > 0
    THEN RefMinRequired(cfg, pos) - RefActualCount(team, pos) ELSE 0

RefMetrics(red, white, cfg) ==
    LET k == Min(3, Len(red) \div 2)
    IN  [ovrDiff |-> RefDiff(red, white, "ovr"),
         fitnessDiff |-> RefDiff(red, white, "fitness"),
         attackDiff |-> RefDiff(red, white, "attack"),
         defenceDiff |-> RefDiff(red, white, "defence"),
         ballUseDiff |-> RefDiff(red, white, "ballUse"),
         topHeavinessDiff |-> Abs(RefTopSum(red, k) - RefTopSum(white, k)),
         positionViolations |->
             RefShortfall(red, cfg, "DEF") + RefShortfall(red, cfg, "ATT")
             + RefShortfall(red, cfg, "ALR") + RefShortfall(white, cfg, "DEF")
             + RefShortfall(white, cfg, "ATT") + RefShortfall(white, cfg, "ALR")]

\* sum of metric times weight, in hundredths
RefScore(m, cfg) ==
    m.ovrDiff * RefWeight(cfg, "ovr")
    + 10 * m.fitnessDiff * RefWeight(cfg, "fitness")
    + 10 * m.attackDiff * RefWeight(cfg, "attack")
    + 10 * m.defenceDiff * RefWeight(cfg, "defence")
    + 10 * m.ballUseDiff * RefWeight(cfg, "ballUse")
    + m.topHeavinessDiff * RefWeight(cfg, "topHeaviness")
    + 10 * m.positionViolations * RefWeight(cfg, "positionViolation")

MeetsMinimums(team, cfg) ==
    \A pos \in AllPositions :
        RefActualCount(team, pos) >= RefMinRequired(cfg, pos)

RefMultiplier(position, attr) ==
    CASE position = "DEF" /\ attr = "defence" -> 115
      [] position = "DEF" /\ attr = "attack" -> 85
      [] position = "ATT" /\ attr = "attack" -> 115
      [] position = "ATT" /\ attr = "defence" -> 85
      [] OTHER -> 100

\* fitness*0.35 + adjDefence*0.25 + adjAttack*0.20 + ballUse*0.20, exactly,
\* in units of 1/10000
RefOvr10000(a) ==
    35 * 100 * a.fitness
    + 25 * RefMultiplier(a.position, "defence") * a.defence
    + 20 * RefMultiplier(a.position, "attack") * a.attack
    + 20 * 100 * a.ballUse

\* C11: for attributes in 1..10 and every position calculateOVR returns the
\* weighted sum (with the position's multipliers on defence and attack)
\* rounded to one decimal place, that is a number of tenths at most 0.05
\* from the exact sum, and calls with the same five inputs return the same
\* value.
C11_OvrIsRoundedWeightedSum ==
    \A n \in 1..Len(ovrLog) :
        /\ ovrLog[n] * 1000 - RefOvr10000(ovrArgs) \in -500..500
        /\ ovrLog[n] = ovrLog[1]

C11_Witness ==
    /\ Len(ovrLog) = 2
    /\ ovrArgs.position = "DEF"
    /\ RefOvr10000(ovrArgs) % 1000 = 500
    /\ ovrLog[2] * 1000 < RefOvr10000(ovrArgs)

(***************************************************************************)
(* Further properties of the allocators (specification Spec)               *)
(***************************************************************************)
\* the naive split: the first teamSize players of the input on one team,
\* the rest on the other
naiveSplit(pool, ts) ==
    Teams(SubSeq(pool, 1, ts), SubSeq(pool, ts + 1, Len(pool)))

\* C12: for a pool of exactly 2 * teamSize players the absolute total-OVR
\* difference of the teams generateBalancedTeams returns is at most that of
\* the naive split of the input.
C12_NoWorseThanNaiveSplit ==
    (/\ entry = "generateBalancedTeams"
     /\ returned
     /\ Len(players) = 2 * teamSize) =>
        ovrGap(Teams(result.redTeam, result.whiteTeam))
            <= ovrGap(naiveSplit(players, teamSize))

\* C13: in the model built by buildILPModel every player variable is
\* binary: no assignment that satisfies the model's constraints gives a
\* variable a value other than 0 or 1.  Stated for the calls that pass at
\* least 2 * teamSize players.
C13_DecisionVariablesBinary ==
    (/\ entry = "generateILPOptimizedTeams"
     /\ pc = "solve"
     /\ Len(players) >= 2 * teamSize) =>
        \A x \in solutions(model) : \A i \in 1..model.n : x[i] \in {0, 1}

(***************************************************************************)
(* Properties of the binary-program path at team size 5 (specification     *)
(* IlpSpec)                                                                *)
(***************************************************************************)
solverResult ==
    /\ entry = "generateILPOptimizedTeams"
    /\ returned
    /\ producedBy = "solver"

\* the ids of the k candidates with the highest OVR
topCandidates(pool, ts, k) ==
    ids(Slice(SortByOvrDesc(selectTopPlayers(pool, ts)), 0, k))

\* C14: for teamSize >= 5, in every result built from a feasible solver
\* solution, half of the top min(4, 2 * floor(teamSize / 2)) candidates by
\* OVR are on Red and half on White.
C14_EliteSplitEvenly ==
    (solverResult /\ teamSize >= 5) =>
        LET k == Min(4, 2 * (teamSize \div 2))
            top == topCandidates(players, teamSize, k)
        IN  /\ 2 * Cardinality(top \cap ids(result.redTeam)) = k
            /\ 2 * Cardinality(top \cap ids(result.whiteTeam)) = k

\* the pool-adjusted minimum of a position: minPositions[pos] when the
\* candidate pool holds at least twice as many players of the position,
\* floor(count / 2) otherwise
RefAdjustedMinimum(pool, ts, cfg, pos) ==
    LET count == RefActualCount(selectTopPlayers(pool, ts), pos)
    IN  IF count >= 2 * RefMinRequired(cfg, pos)
        THEN RefMinRequired(cfg, pos) ELSE count \div 2

\* C15: in every result built from a feasible solver solution each team
\* has at least the pool-adjusted minimum count of every position.
C15_PositionMinimumsHard ==
    solverResult =>
        \A pos \in AllPositions :
            /\ RefActualCount(result.redTeam, pos)
                   >= RefAdjustedMinimum(players, teamSize, config, pos)
            /\ RefActualCount(result.whiteTeam, pos)
                   >= RefAdjustedMinimum(players, teamSize, config, pos)

\* the weighted sum of the five attribute differences of a split, in
\* hundredths
RefWeightedDiff(red, white, cfg) ==
    RefDiff(red, white, "ovr") * RefWeight(cfg, "ovr")
    + 10 * RefDiff(red, white, "fitness") * RefWeight(cfg, "fitness")
    + 10 * RefDiff(red, white, "attack") * RefWeight(cfg, "attack")
    + 10 * RefDiff(red, white, "defence") * RefWeight(cfg, "defence")
    + 10 * RefDiff(red, white, "ballUse") * RefWeight(cfg, "ballUse")

\* the members of a sequence at the indices in S, in order
RECURSIVE RefPick(_, _)
RefPick(seq, S) ==
    IF seq = <<>> THEN <<>>
    ELSE LET front == RefPick(SubSeq(seq, 1, Len(seq) - 1), S)
         IN  IF Len(seq) \in S THEN Append(front, seq[Len(seq)]) ELSE front

\* the splits of the candidate pool into two teams of teamSize whose Red
\* team meets the adjusted position minimums and, for teamSize >= 5, holds
\* half of the top candidates
RefValidSplits(pool, ts, cfg) ==
    LET candidates == selectTopPlayers(pool, ts)
        k == Min(4, 2 * (ts \div 2))
        top == topCandidates(pool, ts, k)
        fits(red) ==
            /\ \A pos \in AllPositions :
                   RefActualCount(red, pos)
                       >= RefAdjustedMinimum(pool, ts, cfg, pos)
            /\ ts >= 5 => 2 * Cardinality(top \cap ids(red)) = k
    IN  {split \in {Teams(RefPick(candidates, S),
                          RefPick(candidates, (1..Len(candidates)) \ S)) :
                        S \in {T \in SUBSET (1..Len(candidates)) :
                                  Cardinality(T) = ts}} :
            fits(split.redTeam)}

\* C16: a split returned with the tag 'ilp-solver' attains the least
\* weighted sum of the five attribute differences among the valid splits
\* of the candidate pool.
C16_SolverSplitOptimal ==
    (/\ returned
     /\ result.algorithm = "ilp-solver"
     /\ Len(players) >= 2 * teamSize) =>
        \A split \in RefValidSplits(players, teamSize, config) :
            RefWeightedDiff(result.redTeam, result.whiteTeam, config)
                <= RefWeightedDiff(split.redTeam, split.whiteTeam, config)

\* the weighted sum of the five attribute differences in the metrics
\* calculateFairnessScore reports for a split, in hundredths
reportedWeightedDiff(teams, cfg) ==
    LET metrics == calculateFairnessScore(teams.redTeam, teams.whiteTeam,
                                          cfg).metrics
        weights == SpreadField(cfg, "weights")
    IN  metrics.ovrDiff * weights.ovr
        + 10 * metrics.fitnessDiff * weights.fitness
        + 10 * metrics.attackDiff * weights.attack
        + 10 * metrics.defenceDiff * weights.defence
        + 10 * metrics.ballUseDiff * weights.ballUse

\* the 0/1 assignments of the candidate pool with teamSize players on Red
binaryAssignments == assignments(model.n, teamSize, 1)

\* C17: for every 0/1 assignment of the candidate pool with exactly
\* teamSize players on Red, the smallest objective value the model admits
\* is half of the weighted sum of the five attribute differences that
\* calculateFairnessScore reports for that split (stated doubled: twice the
\* objective equals the weighted sum).
C17_ObjectiveIsHalfWeightedDiff ==
    (entry = "generateILPOptimizedTeams" /\ pc = "solve") =>
        \A x \in binaryAssignments :
            /\ leastCost2(model, x) =
                   reportedWeightedDiff(
                       extractTeams(selectedPlayers, x, teamSize),
                       mergedConfig(config))
            /\ leastCost2(model, x) = objective2(model, x)

C17_Witness ==
    /\ entry = "generateILPOptimizedTeams"
    /\ pc = "solve"
    /\ Len(players) > 2 * teamSize
    /\ teamSize = 2
    /\ config = CustomConfig
    /\ \E x \in binaryAssignments :
           /\ leastCost2(model, x) > 0
           /\ \E a \in Range(Attributes) :
                  2 * SumOver([i \in 1..model.n |-> x[i] * model.coeff[a][i]],
                              1..model.n) > model.total[a]
           /\ \E a \in Range(Attributes) :
                  2 * SumOver([i \in 1..model.n |-> x[i] * model.coeff[a][i]],
                              1..model.n) < model.total[a]

(***************************************************************************)
(* Properties of the annealing loop (specification Spec)                   *)
(***************************************************************************)
\* C18: in each annealing iteration the neighbour is generated from the
\* current split; a neighbour whose score is strictly lower than the
\* current score becomes the current split; any other neighbour either
\* becomes the current split or is rejected, and a rejection leaves the
\* current split, the current score and the best snapshot unchanged.
C18_AcceptanceRule ==
    [][annealIterations' = annealIterations + 1 =>
          LET moved == /\ currentRed' = newRed'
                       /\ currentWhite' = newWhite'
                       /\ currentScore' = newScore'
              rejected == /\ currentRed' = currentRed
                          /\ currentWhite' = currentWhite
                          /\ currentScore' = currentScore
                          /\ bestRed' = bestRed
                          /\ bestWhite' = bestWhite
                          /\ bestScore' = bestScore
          IN  /\ Teams(newRed', newWhite') \in
                     generateSwap(Teams(currentRed, currentWhite), "1-for-1")
                     \cup generateSwap(Teams(currentRed, currentWhite), "2-for-2")
              /\ newScore' < currentScore => moved
              /\ moved \/ rejected
              /\ ~accepted' => rejected]_vars

\* a worse neighbour is rejected in a run that accepted a worse one before
C18_Witness ==
    /\ pc = "anneal"
    /\ annealIterations = 2
    /\ ~accepted
    /\ newScore > currentScore
    /\ currentScore > bestScore

\* C19: the fairnessScore in the metadata of every returned result of the
\* annealing routine and of the binary-program path is the score of the
\* returned teams under the merged config (given here by the reference
\* definition of the score), and during annealing the best score is the
\* score of the best snapshot.
C19_ReportedScoreIsScoreOfTeams ==
    /\ (returned /\ producedBy \in {"anneal", "solver"}) =>
           result.fairnessScore =
               RefScore(RefMetrics(result.redTeam, result.whiteTeam, config),
                        config)
    /\ pc = "anneal" =>
           bestScore = RefScore(RefMetrics(bestRed, bestWhite, config), config)

C19_Witness ==
    /\ returned
    /\ producedBy = "anneal"
    /\ annealIterations = 2
    /\ result.fairnessScore < seedScore
    /\ currentScore > result.fairnessScore

(***************************************************************************)
(* Termination of generateConstraintOptimizedTeams (specification          *)
(* FullRunSpec)                                                            *)
(***************************************************************************)
\* C20: generateConstraintOptimizedTeams terminates: the loop body runs at
\* most maxIterations times, the reported iterations never exceeds
\* maxIterations, no iteration starts once temperature <= 0.01, the
\* re-draw loops of the 2-for-2 move are left, and the call ends.
C20_AnnealingTerminates ==
    /\ [](pc # "idle" =>
             annealIterations <= mergedConfig(config).maxIterations)
    /\ [](returned => result.iterations <= mergedConfig(config).maxIterations)
    /\ [][annealIterations' = annealIterations + 1 =>
              temperature > minTemperature]_vars
    /\ (pc = "redrawRed") ~> (pc = "redrawWhite")
    /\ (pc = "redrawWhite") ~> (pc = "anneal")
    /\ <>(pc = "done")

\* a run that made a 2-for-2 move in its last iteration and left the loop
\* at the temperature floor, before maxIterations
C20_Witness ==
    /\ returned
    /\ teamSize = 2
    /\ swapIndices.redIdx1 # swapIndices.redIdx2
    /\ swapIndices.whiteIdx1 # swapIndices.whiteIdx2
    /\ temperature <= minTemperature
    /\ result.iterations < mergedConfig(config).maxIterations
    /\ result.iterations >= 1

(***************************************************************************)
(* Properties of the draft allocator's steps (specification DraftSpec)     *)
(***************************************************************************)
\* the indices at which two rosters of the same length differ
changedAt(before, after) == {i \in 1..Len(before) : after[i] # before[i]}

\* the split after redTeam[i] and whiteTeam[j] have changed places, written
\* on the rosters themselves
RefExchange(red, white, i, j) ==
    Teams([k \in 1..Len(red) |-> IF k = i THEN white[j] ELSE red[k]],
          [k \in 1..Len(white) |-> IF k = j THEN red[i] ELSE white[k]])

\* |sum of Red's ovr - sum of White's ovr|, in tenths
RefGap(red, white) == Abs(RefSum(red, "ovr") - RefSum(white, "ovr"))

\* C21: a refinement pass of generateBalancedTeams makes at most one swap,
\* there are at most 100 passes, and when the loop stops because a pass made
\* no swap, no exchange of one Red player with one White player strictly
\* reduces the absolute total-OVR difference.
C21_RefinementFirstImprovement ==
    /\ [](iterations <= maxRefineIterations)
    /\ [][(pc = "refine" /\ iterations' = iterations + 1) =>
              /\ Len(redTeam') = Len(redTeam)
              /\ Len(whiteTeam') = Len(whiteTeam)
              /\ Cardinality(changedAt(redTeam, redTeam')) <= 1
              /\ Cardinality(changedAt(whiteTeam, whiteTeam')) <= 1
              /\ \A i \in changedAt(redTeam, redTeam'),
                    j \in changedAt(whiteTeam, whiteTeam') :
                     Teams(redTeam', whiteTeam')
                         = RefExchange(redTeam, whiteTeam, i, j)]_vars
    /\ []((pc = "refine" /\ iterations >= 1 /\ ~improved) =>
             \A i \in 1..Len(redTeam), j \in 1..Len(whiteTeam) :
                 LET after == RefExchange(redTeam, whiteTeam, i, j)
                 IN  RefGap(after.redTeam, after.whiteTeam)
                         >= RefGap(redTeam, whiteTeam))

\* the loop has stopped on a pass without a swap, after a pass that swapped,
\* at a difference that is not zero
C21_Witness ==
    /\ pc = "refine"
    /\ ~improved
    /\ iterations >= 3
    /\ teamSize = DraftTeamSize
    /\ ovrGap(Teams(redTeam, whiteTeam)) > 0

\* the three distributePosition calls are over (lines 105-107)
distributionOver ==
    \/ pc = "distribute" /\ forEachDone /\ laterBuckets = <<>>
    \/ pc = "refine" /\ iterations = 0

\* C22: after the per-position distribution and before the refinement, for
\* each position the numbers of players of that position on Red and on
\* White differ by at most one.
C22_PositionalBalance ==
    distributionOver =>
        \A pos \in AllPositions :
            Abs(RefActualCount(redTeam, pos) - RefActualCount(whiteTeam, pos)) <= 1

\* C27: during the per-position distribution of generateBalancedTeams
\* neither team ever holds more than teamSize players, both teams hold
\* exactly teamSize players when the distribution ends, and the
\* size-balancing loops move no player.
C27_DistributionRespectsTeamSize ==
    /\ [](pc = "distribute" =>
             /\ Len(redTeam) <= teamSize
             /\ Len(whiteTeam) <= teamSize)
    /\ []((pc = "distribute" /\ forEachDone /\ laterBuckets = <<>>) =>
             /\ Len(redTeam) = teamSize
             /\ Len(whiteTeam) = teamSize)
    /\ [][(pc = "distribute" /\ pc' = "refine") =>
              /\ redTeam' = redTeam
              /\ whiteTeam' = whiteTeam]_vars

\* the size-balancing loops have been passed after a distribution in which
\* the cap on the team size sent a player to the other team, from a pool
\* that has one player too many
C27_Witness ==
    /\ pc = "refine"
    /\ iterations = 0
    /\ Len(players) > 2 * teamSize
    /\ \E pos \in AllPositions :
           CountPosition(whiteTeam, pos) >= CountPosition(redTeam, pos) + 2

(***************************************************************************)
(* Properties of the Play page (specification PageSpec)                    *)
(***************************************************************************)
\* C23: every reserveOrder the Play page writes is null or an integer in
\* 1..8.
C23_ReserveOrderInRange ==
    \A i \in 1..Len(availability) :
        isReserve(availability[i]) =>
            availability[i].reserveOrder \in 1..MaxReserveOrder

(***************************************************************************)
(* Further properties of the allocators (specification Spec)               *)
(***************************************************************************)
\* C24: the solver version of generateILPOptimizedTeams never returns a
\* result when players.length < 2 * teamSize: it ends in the
\* insufficient-players error.
C24_IlpRejectsShortPools ==
    (/\ entry = "generateILPOptimizedTeams"
     /\ Len(players) < 2 * teamSize
     /\ pc = "done") =>
        result = Thrown("InsufficientPlayers")

\* the names of a roster, lower-cased
lowerNames(team) == {toLowerCase(team[i].name) : i \in 1..Len(team)}

\* how many players of a list carry a name, compared case-insensitively
namesakes(list, lowerName) ==
    Cardinality({i \in 1..Len(list) : toLowerCase(list[i].name) = lowerName})

\* C25: if the pool has at most one player named 'jay' and at most one
\* named 'dman' (compared case-insensitively), the teams generateBalancedTeams
\* returns never have 'jay' on Red and never have 'jay' and 'dman' on the
\* same team.
C25_NameRuleHolds ==
    (/\ returned
     /\ entry = "generateBalancedTeams"
     /\ namesakes(players, "jay") <= 1
     /\ namesakes(players, "dman") <= 1) =>
        /\ "jay" \notin lowerNames(result.redTeam)
        /\ ~({"jay", "dman"} \subseteq lowerNames(result.redTeam))
        /\ ~({"jay", "dman"} \subseteq lowerNames(result.whiteTeam))

\* a result of two-player teams that has 'jay' on White and 'dman' on Red
C25_Witness ==
    /\ returned
    /\ entry = "generateBalancedTeams"
    /\ teamSize = 2
    /\ "jay" \in lowerNames(result.whiteTeam)
    /\ "dman" \in lowerNames(result.redTeam)

\* C26: the split generateBalancedTeams returns has the same absolute
\* total-OVR difference as the split held when the refinement loop ends: the
\* steps after the refinement (captains, applyTeamConstraints) do not change
\* the OVR gap.
C26_ReturnKeepsRefinedGap ==
    [][(pc = "refine" /\ pc' # "refine") =>
          RefGap(redTeam', whiteTeam') = RefGap(redTeam, whiteTeam)]_vars

(***************************************************************************)
(* Symmetry of the scorer (specification ScoreSpec)                        *)
(***************************************************************************)
\* C28: calculateFairnessScore is symmetric in its two roster arguments:
\* what a call returned for (redTeam, whiteTeam) is what the scorer gives
\* for (whiteTeam, redTeam), score and seven metrics alike, for rosters of
\* equal or unequal size and any config.
C28_ScorerSymmetric ==
    \A i \in 1..Len(scoreLog) :
        scoreLog[i] = calculateFairnessScore(whiteTeam, redTeam, config)

(***************************************************************************)
(* Range of calculateOVR (specification OvrSpec)                           *)
(***************************************************************************)
\* C29: for fitness, defence, attack and ballUse in 1..10 and every
\* position, the value calculateOVR returns stays on the 1-10 scale of the
\* attributes: 1.0 <= OVR <= 10.0 (in tenths: 10..100).
C29_OvrOnAttributeScale ==
    (/\ ovrArgs.fitness \in 1..10
     /\ ovrArgs.defence \in 1..10
     /\ ovrArgs.attack \in 1..10
     /\ ovrArgs.ballUse \in 1..10) =>
        \A n \in 1..Len(ovrLog) : ovrLog[n] >= 10 /\ ovrLog[n] <= 100

(***************************************************************************)
(* The Play page once teams are generated: tap-to-swap on the pitch, the   *)
(* colour swap and the two captain selectors                               *)
(***************************************************************************)
\* team.findIndex((p) => p.id === id), 1-based; 0 stands for -1
indexOfId(team, id) == findIndex(team, LAMBDA p : p.id = id)

\* team.some((p) => p.id === id)
someId(team, id) == \E i \in 1..Len(team) : team[i].id = id

\* [team[fromIndex], team[toIndex]] = [team[toIndex], team[fromIndex]]
swapWithin(team, fromIndex, toIndex) ==
    [team EXCEPT ![fromIndex] = team[toIndex], ![toIndex] = team[fromIndex]]

\* newRedTeam and newWhiteTeam of handlePlayerSelect(player, team) when
\* another player is selected and is found on one of the teams
teamsAfterTap(red, white, selectedId, player, team) ==
    LET selectedTeam == IF someId(red, selectedId) THEN "red" ELSE "white"
        selectedPlayer == IF selectedTeam = "red"
                          THEN red[indexOfId(red, selectedId)]
                          ELSE white[indexOfId(white, selectedId)]
    IN  IF team = selectedTeam
        THEN IF team = "red"
             THEN Teams(swapWithin(red, indexOfId(red, selectedId),
                                   indexOfId(red, player.id)),
                        white)
             ELSE Teams(red,
                        swapWithin(white, indexOfId(white, selectedId),
                                   indexOfId(white, player.id)))
        ELSE IF selectedTeam = "red"
             THEN Teams([red EXCEPT ![indexOfId(red, selectedId)] = player],
                        [white EXCEPT ![indexOfId(white, player.id)] =
                                          selectedPlayer])
             ELSE Teams([red EXCEPT ![indexOfId(red, player.id)] =
                                        selectedPlayer],
                        [white EXCEPT ![indexOfId(white, selectedId)] = player])

\* prev.map((p) => ({ ...p, isCaptain: p.id === playerId }))
withCaptain(team, playerId) ==
    [i \in 1..Len(team) |->
        [team[i] EXCEPT !.isCaptain = (team[i].id = playerId)]]

\* the option a captain selector shows: team.find(p => p.isCaptain)?.id,
\* and the first option when no player is captain
shownCaptain(team) ==
    IF \E i \in 1..Len(team) : team[i].isCaptain
    THEN team[findIndex(team, LAMBDA p : p.isCaptain)].id
    ELSE team[1].id

\* handleGenerateTeams goes on only with exactly requiredPlayers players
\* selected (Play.tsx:289); the fast algorithm is the one followed
BoardInit ==
    /\ teamSize \in 1..MaxTeamSize
    /\ players \in {pool \in Pools : Len(pool) = teamSize * 2}
    /\ config = EmptyConfig
    /\ redTeam = <<>>
    /\ whiteTeam = <<>>
    /\ IdleLocals

\* setTeamsGenerated(true): the pitch and the selectors are rendered
teamsGenerated == pc = "done" /\ result.kind = "ok"

\* a tap on the player at position k (1-based) of one team.  The effect of
\* part_001:71-74 has reset the selection by the time of the next tap
\* whenever the teams changed.
HandlePlayerSelect ==
    /\ teamsGenerated
    /\ \E team \in {"red", "white"} :
        \E k \in 1..Len(IF team = "red" THEN redTeam ELSE whiteTeam) :
            LET player == IF team = "red" THEN redTeam[k] ELSE whiteTeam[k]
            IN  IF selectedPlayerId = 0
                THEN /\ selectedPlayerId' = player.id
                     /\ UNCHANGED <<redTeam, whiteTeam>>
                ELSE IF selectedPlayerId = player.id
                THEN /\ selectedPlayerId' = 0
                     /\ UNCHANGED <<redTeam, whiteTeam>>
                ELSE IF /\ ~someId(redTeam, selectedPlayerId)
                        /\ ~someId(whiteTeam, selectedPlayerId)
                THEN /\ selectedPlayerId' = 0
                     /\ UNCHANGED <<redTeam, whiteTeam>>
                ELSE LET new == teamsAfterTap(redTeam, whiteTeam,
                                              selectedPlayerId, player, team)
                     IN  /\ selectedPlayerId' = 0
                         /\ redTeam' = new.redTeam
                         /\ whiteTeam' = new.whiteTeam
    /\ UNCHANGED <<inputVars, entry, pc, argPlayers, argConfig, improved,
                   iterations, annealVars, solverOutcome, result, producedBy,
                   scoreLog, ovrVars, distVars, listed, availability,
                   selectedReserveId, clicks>>

\* handleSwapTeams, and the pitch's effect on the changed teams
HandleSwapTeams ==
    /\ teamsGenerated
    /\ redTeam' = whiteTeam
    /\ whiteTeam' = redTeam
    /\ selectedPlayerId' = 0
    /\ UNCHANGED <<inputVars, entry, pc, argPlayers, argConfig, improved,
                   iterations, annealVars, solverOutcome, result, producedBy,
                   scoreLog, ovrVars, distVars, listed, availability,
                   selectedReserveId, clicks>>

\* handleRedCaptainChange(playerId): another option of the Reds selector
HandleRedCaptainChange ==
    /\ teamsGenerated
    /\ \E playerId \in ids(redTeam) \ {shownCaptain(redTeam)} :
           redTeam' = withCaptain(redTeam, playerId)
    /\ selectedPlayerId' = 0
    /\ UNCHANGED <<inputVars, entry, pc, argPlayers, argConfig, whiteTeam,
                   improved, iterations, annealVars, solverOutcome, result,
                   producedBy, scoreLog, ovrVars, distVars, listed,
                   availability, selectedReserveId, clicks>>

\* handleWhiteCaptainChange(playerId): another option of the other selector
HandleWhiteCaptainChange ==
    /\ teamsGenerated
    /\ \E playerId \in ids(whiteTeam) \ {shownCaptain(whiteTeam)} :
           whiteTeam' = withCaptain(whiteTeam, playerId)
    /\ selectedPlayerId' = 0
    /\ UNCHANGED <<inputVars, entry, pc, argPlayers, argConfig, redTeam,
                   improved, iterations, annealVars, solverOutcome, result,
                   producedBy, scoreLog, ovrVars, distVars, listed,
                   availability, selectedReserveId, clicks>>

BoardNext ==
    \/ CallGenerateBalancedTeams
    \/ Draft
    \/ RefinePass
    \/ AssignCaptains
    \/ HandlePlayerSelect
    \/ HandleSwapTeams
    \/ HandleRedCaptainChange
    \/ HandleWhiteCaptainChange

BoardSpec == BoardInit /\ [][BoardNext]_vars

(***************************************************************************)
(* Properties of the teams on the Play page (specification BoardSpec)      *)
(***************************************************************************)
\* C30: starting from generated teams with one captain each, any sequence
\* of tap-to-swap exchanges (inside one team or across the two teams),
\* colour swaps and captain re-selections leaves each team with exactly one
\* captain and with the number of players it had.
C30_BoardKeepsCaptainsAndSizes ==
    (/\ teamsGenerated
     /\ Cardinality(captains(result.redTeam)) = 1
     /\ Cardinality(captains(result.whiteTeam)) = 1) =>
        /\ Cardinality(captains(redTeam)) = 1
        /\ Cardinality(captains(whiteTeam)) = 1
        /\ Len(redTeam) = Len(result.redTeam)
        /\ Len(whiteTeam) = Len(result.whiteTeam)

====
